---- MODULE Spec2Model ----
(***************************************************************************)
(* A model of the KapowarrBot monitor component (src/comic_monitor.py) and *)
(* of the library-client operations it calls (src/kapowarr.py).            *)
(*                                                                         *)
(* SpecQueue is the download-queue poller and its notification ledger,     *)
(* SpecAcq the acquisition run with the existing-library cache,            *)
(* SpecDiscovery the catalog search of a run, request by request, and      *)
(* SpecSeries the new-series heuristic applied to a set of volumes,        *)
(* SpecScenario one search on given answers of the catalog, SpecProcess    *)
(* _process_new_comic on one candidate, SpecRuns the daily run and a       *)
(* manual run interleaved at their suspension points, and SpecTasks the    *)
(* three background tasks of main.py under a fair event loop.  SpecRun is  *)
(* the daily run alone, SpecTwoTasks the queue poller beside the daily     *)
(* run, SpecClient one request of the library client or of the catalog,    *)
(* SpecAdd add_comic from the id of its candidate on, and SpecCallers the  *)
(* manual command and the daily job as callers of the discovery pipeline.  *)
(* SpecDailyJob is the loop of the daily job under a fair event loop, and  *)
(* SpecPresence the start and stop calls of the presence loop              *)
(* (src/rich_presence.py).                                                 *)
(*                                                                         *)
(* Time is the wall clock in minutes since the ComicMonitor was            *)
(* constructed.  The clock is read at a few representative instants: the   *)
(* first MaxSlots multiples of TimeStep, and the 24 hour boundaries.       *)
(* The awaits inside one handler step (an HTTP request with a 15 to 30     *)
(* second deadline) are short against every window of the program (30      *)
(* minutes, 1 hour, 24 hours, 48 hours): a step reads one clock value.     *)
(***************************************************************************)
EXTENDS Integers, Sequences, FiniteSets, TLC

VARIABLES
    now,                    \* the wall clock, in minutes
    notified_downloads,     \* ComicMonitor.notified_downloads: key -> time
    last_cleanup,           \* ComicMonitor.last_cleanup
    qpc,                    \* the poller: "idle" or in the loop over the "items"
    qstep,                  \* what the last step of the poller did
    sent_log,               \* the notifications delivered: key -> [count, last]
    call,                   \* a call of a function: its arguments and its result
    existing_comics_cache,  \* ComicMonitor.existing_comics_cache
    last_cache_update,      \* ComicMonitor.last_cache_update, NoTime for None
    library,                \* the catalog ids of the volumes the library holds
    run,                    \* the check_and_add_new_comics run of each trigger
    cstep,                  \* what the last get_existing_comics call did
    populated_at            \* when the library last filled the cache, if it holds

qvars == <<notified_downloads, last_cleanup, qpc, qstep, sent_log>>

avars == <<existing_comics_cache, last_cache_update, library, run, cstep, populated_at>>

vars == <<now, qvars, call, avars>>

----------------------------------------------------------------------------
(* Bounds of the model *)

TimeStep == 15
MaxSlots == 4
MaxLoops == 3
BaseYear == 2026
YearSpan == 2
MaxResults == 2

(* Program constants, in minutes *)

RenotifyWindow == 30
NotificationCleanupInterval == 1440
CleanupAge == 2880

\* the days the ledger keeps an entry
KeptDays == CleanupAge \div NotificationCleanupInterval

\* the clock readings: the first MaxSlots steps after construction, and each
\* later day boundary with the step after it
Instants ==
    { k * TimeStep : k \in 0..MaxSlots }
        \cup { d * NotificationCleanupInterval + k * TimeStep : d \in 1..KeptDays, k \in 0..1 }

----------------------------------------------------------------------------
(* Helpers *)

Put(f, k, v) == [x \in (DOMAIN f) \cup {k} |-> IF x = k THEN v ELSE f[x]]

Restrict(f, S) == [x \in S |-> f[x]]

EmptyMap == [x \in {} |-> 0]

SeqsUpTo(S, n) == UNION { [1..m -> S] : m \in 0..n }

NoCall == [fn |-> "none"]

NoCacheStep == [op |-> "none"]

----------------------------------------------------------------------------
(* Python values and strings *)

\* A JSON value of a response: None, a string (a tuple of characters), an
\* integer, or a key that the object does not have
PyNone == [t |-> "none"]

NoKey == [t |-> "nokey"]

PyStr(s) == [t |-> "str", s |-> s]

PyInt(n) == [t |-> "int", n |-> n]

\* bool(v)
truthy(v) ==
    CASE v.t = "none" -> FALSE
      [] v.t = "nokey" -> FALSE
      [] v.t = "str" -> Len(v.s) > 0
      [] v.t = "int" -> v.n # 0
      [] OTHER -> TRUE

UpperCase ==
    <<"A", "B", "C", "D", "E", "F", "G", "H", "I", "J", "K", "L", "M",
      "N", "O", "P", "Q", "R", "S", "T", "U", "V", "W", "X", "Y", "Z">>

LowerCase ==
    <<"a", "b", "c", "d", "e", "f", "g", "h", "i", "j", "k", "l", "m",
      "n", "o", "p", "q", "r", "s", "t", "u", "v", "w", "x", "y", "z">>

lower_char(c) ==
    IF \E i \in DOMAIN UpperCase : UpperCase[i] = c
    THEN LowerCase[CHOOSE i \in DOMAIN UpperCase : UpperCase[i] = c]
    ELSE c

\* str.lower(): the lowered characters, as a sequence
str_lower(s) ==
    LET lowered == [i \in 1..Len(s) |-> lower_char(s[i])]
    IN  SubSeq(lowered, 1, Len(s))

\* `t in s` on two strings
str_in(t, s) ==
    \E i \in 0..(Len(s) - Len(t)) : SubSeq(s, i + 1, i + Len(t)) = t

\* 'Unknown'
s_Unknown == <<"U", "n", "k", "n", "o", "w", "n">>

\* 'Marvel'
s_Marvel == <<"M", "a", "r", "v", "e", "l">>

\* 'DC Comics'
s_DC_Comics == <<"D", "C", " ", "C", "o", "m", "i", "c", "s">>

\* 'Dark Horse Comics'
s_Dark_Horse_Comics == <<"D", "a", "r", "k", " ", "H", "o", "r", "s", "e", " ", "C", "o", "m", "i", "c", "s">>

\* 'Image'
s_Image == <<"I", "m", "a", "g", "e">>

\* 'Wildcard'
s_Wildcard == <<"W", "i", "l", "d", "c", "a", "r", "d">>

\* 'Spawn'
s_Spawn == <<"S", "p", "a", "w", "n">>

\* 'X-Men Omnibus'
s_X_Men_Omnibus == <<"X", "-", "M", "e", "n", " ", "O", "m", "n", "i", "b", "u", "s">>

\* 'CLASSIC X'
s_CLASSIC_X == <<"C", "L", "A", "S", "S", "I", "C", " ", "X">>

\* 'A TPB'
s_A_tpb == <<"A", " ", "T", "P", "B">>

\* 'marvel'
s_marvel == <<"m", "a", "r", "v", "e", "l">>

\* 'dc'
s_dc == <<"d", "c">>

\* 'detective comics'
s_detective_comics == <<"d", "e", "t", "e", "c", "t", "i", "v", "e", " ", "c", "o", "m", "i", "c", "s">>

\* 'dark horse'
s_dark_horse == <<"d", "a", "r", "k", " ", "h", "o", "r", "s", "e">>

\* '1992'
s_1992 == <<"1", "9", "9", "2">>

\* 'UNIQUE constraint failed'
s_UNIQUE_constraint_failed ==
    <<"U", "N", "I", "Q", "U", "E", " ", "c", "o", "n", "s", "t", "r", "a",
      "i", "n", "t", " ", "f", "a", "i", "l", "e", "d">>

\* 'Volume Already Exists'
s_Volume_Already_Exists ==
    <<"V", "o", "l", "u", "m", "e", " ", "A", "l", "r", "e", "a", "d", "y",
      " ", "E", "x", "i", "s", "t", "s">>

\* 'HTTP 500'
s_HTTP_500 ==
    <<"H", "T", "T", "P", " ", "5", "0", "0">>

\* 'timeout'
s_timeout ==
    <<"t", "i", "m", "e", "o", "u", "t">>

\* 'Successfully added'
s_Successfully_added ==
    <<"S", "u", "c", "c", "e", "s", "s", "f", "u", "l", "l", "y", " ", "a",
      "d", "d", "e", "d">>

\* 'Failed to retrieve volume ID from response'
s_Failed_to_retrieve ==
    <<"F", "a", "i", "l", "e", "d", " ", "t", "o", " ", "r", "e", "t", "r",
      "i", "e", "v", "e", " ", "v", "o", "l", "u", "m", "e", " ", "I",
      "D", " ", "f", "r", "o", "m", " ", "r", "e", "s", "p", "o", "n",
      "s", "e">>

\* 'Comic already exists in library'
s_Comic_already_exists ==
    <<"C", "o", "m", "i", "c", " ", "a", "l", "r", "e", "a", "d", "y", " ",
      "e", "x", "i", "s", "t", "s", " ", "i", "n", " ", "l", "i", "b",
      "r", "a", "r", "y">>

\* 'already exists'
s_already_exists ==
    <<"a", "l", "r", "e", "a", "d", "y", " ", "e", "x", "i", "s", "t", "s">>

\* 'unique constraint'
s_unique_constraint ==
    <<"u", "n", "i", "q", "u", "e", " ", "c", "o", "n", "s", "t", "r", "a",
      "i", "n", "t">>

----------------------------------------------------------------------------
(* Discovery: the catalog searches and their filters *)

\* A publisher object of a catalog record; id 0 stands for no id, and the
\* name is a string or a missing key
Dict(id, name) == [t |-> "dict", id |-> id, name |-> name]

\* a catalog record with a name and no deck
Volume(id, name, start_year, publisher) ==
    [id |-> id, name |-> PyStr(name), deck |-> PyNone, start_year |-> start_year,
     publisher |-> publisher]

\* the publishers searched, in the insertion order of monitored_publisher_ids
monitored_publisher_ids ==
    << [name |-> "Marvel", id |-> 31],
       [name |-> "DC", id |-> 10],
       [name |-> "Dark Horse", id |-> 16] >>

\* line 763: `publisher_id in [31, 10, 16]`
monitored_ids == { 31, 10, 16 }

\* below this many gathered results the fallback search runs
FallbackThreshold == 5

\* a start year older than this many years excludes a volume
SeriesAge == 3

exclude_terms ==
    { <<"c", "o", "l", "l", "e", "c", "t", "e", "d">>,
      <<"c", "o", "l", "l", "e", "c", "t", "i", "o", "n">>,
      <<"o", "m", "n", "i", "b", "u", "s">>,
      <<"c", "o", "m", "p", "l", "e", "t", "e">>,
      <<"e", "s", "s", "e", "n", "t", "i", "a", "l">>,
      <<"m", "a", "s", "t", "e", "r", "w", "o", "r", "k", "s">>,
      <<"e", "p", "i", "c", " ", "c", "o", "l", "l", "e", "c", "t", "i", "o", "n">>,
      <<"t", "r", "e", "a", "s", "u", "r", "y">>,
      <<"a", "r", "c", "h", "i", "v", "e">>,
      <<"r", "e", "p", "r", "i", "n", "t">>,
      <<"c", "l", "a", "s", "s", "i", "c">>,
      <<"g", "o", "l", "d", "e", "n", " ", "a", "g", "e">>,
      <<"s", "i", "l", "v", "e", "r", " ", "a", "g", "e">>,
      <<"h", "a", "r", "d", "c", "o", "v", "e", "r">>,
      <<"t", "r", "a", "d", "e", " ", "p", "a", "p", "e", "r", "b", "a", "c", "k">>,
      <<"t", "p", "b">>,
      <<"g", "r", "a", "p", "h", "i", "c", " ", "n", "o", "v", "e", "l">> }

marvel_publishers ==
    { <<"m", "a", "r", "v", "e", "l">>,
      <<"m", "a", "r", "v", "e", "l", " ", "c", "o", "m", "i", "c", "s">>,
      <<"m", "a", "r", "v", "e", "l", " ", "e", "n", "t", "e", "r", "t", "a", "i", "n", "m", "e", "n", "t">>,
      <<"m", "a", "r", "v", "e", "l", " ", "w", "o", "r", "l", "d", "w", "i", "d", "e">>,
      <<"m", "a", "r", "v", "e", "l", " ", "e", "n", "t", "e", "r", "t", "a", "i", "n", "m", "e", "n", "t", " ", "g", "r", "o", "u", "p">>,
      <<"m", "a", "r", "v", "e", "l", " ", "c", "o", "m", "i", "c", "s", " ", "g", "r", "o", "u", "p">> }

dc_publishers ==
    { <<"d", "c">>,
      <<"d", "c", " ", "c", "o", "m", "i", "c", "s">>,
      <<"d", "c", " ", "e", "n", "t", "e", "r", "t", "a", "i", "n", "m", "e", "n", "t">>,
      <<"d", "c", " ", "u", "n", "i", "v", "e", "r", "s", "e">>,
      <<"d", "e", "t", "e", "c", "t", "i", "v", "e", " ", "c", "o", "m", "i", "c", "s">>,
      <<"d", "e", "t", "e", "c", "t", "i", "v", "e", " ", "c", "o", "m", "i", "c", "s", ",", " ", "i", "n", "c", ".">> }

dark_horse_publishers ==
    { <<"d", "a", "r", "k", " ", "h", "o", "r", "s", "e">>,
      <<"d", "a", "r", "k", " ", "h", "o", "r", "s", "e", " ", "c", "o", "m", "i", "c", "s">>,
      <<"d", "a", "r", "k", " ", "h", "o", "r", "s", "e", " ", "e", "n", "t", "e", "r", "t", "a", "i", "n", "m", "e", "n", "t">> }

\* _extract_publisher_name
extract_publisher_name(comic) ==
    LET publisher_data == comic.publisher
    IN  IF publisher_data.t = "dict"
        THEN IF publisher_data.name.t = "nokey" THEN s_Unknown ELSE publisher_data.name.s
        ELSE IF publisher_data.t = "str" THEN publisher_data.s
        ELSE s_Unknown

\* _is_marvel_or_dc_comic
is_marvel_or_dc_comic(comic) ==
    LET publisher_name == str_lower(extract_publisher_name(comic))
        publisher_data == comic.publisher
    IN  \/ \E marvel_pub \in marvel_publishers : str_in(marvel_pub, publisher_name)
        \/ \E dc_pub \in dc_publishers : str_in(dc_pub, publisher_name)
        \/ \E dh_pub \in dark_horse_publishers : str_in(dh_pub, publisher_name)
        \/ publisher_data.t = "dict" /\ publisher_data.id \in monitored_ids

\* line 788: start_year and isinstance(start_year, int) and start_year < current_year - 3
too_old(start_year, current_year) ==
    /\ truthy(start_year)
    /\ start_year.t = "int"
    /\ start_year.n < current_year - SeriesAge

\* `x or ''` of a name or a deck, without the lowering
or_empty(v) == IF truthy(v) THEN v.s ELSE <<>>

\* `x or ''` of a name or a deck, lowered
lower_or_empty(v) == IF truthy(v) THEN str_lower(v.s) ELSE <<>>

\* a heuristic that finds no term of the exclusion list
has_exclude_term_never(comic) == FALSE

\* lines 783-785: a term of the exclusion list is in the name or in the deck
has_exclude_term(comic) ==
    LET name_lower == lower_or_empty(comic.name)
        deck_lower == lower_or_empty(comic.deck)
    IN  \E term \in exclude_terms : str_in(term, name_lower) \/ str_in(term, deck_lower)

\* _is_new_series, with datetime.now().year = current_year
is_new_series(comic, current_year) ==
    IF has_exclude_term(comic) THEN FALSE
    ELSE IF too_old(comic.start_year, current_year) THEN FALSE
    ELSE TRUE

\* lines 619-621: the publisher name of a record names the publisher searched
name_matches(publisher_name, pub_name_lower) ==
    \/ publisher_name = "Marvel" /\ str_in(s_marvel, pub_name_lower)
    \/ publisher_name = "DC"
          /\ (str_in(s_dc, pub_name_lower) \/ str_in(s_detective_comics, pub_name_lower))
    \/ publisher_name = "Dark Horse" /\ str_in(s_dark_horse, pub_name_lower)

\* a catalog response that failed: an HTTP error, an API error or an exception
FailedResponse == [ok |-> FALSE, results |-> <<>>]

\* _search_publisher_releases_by_id on the response of its request
search_publisher_releases_by_id(publisher_name, publisher_id, response, current_year) ==
    LET verified(comic) ==
            \/ comic.publisher.t = "dict" /\ comic.publisher.id = publisher_id
            \/ /\ is_marvel_or_dc_comic(comic)
               /\ name_matches(publisher_name, str_lower(extract_publisher_name(comic)))
        new_series(comic) == is_new_series(comic, current_year)
    IN  IF response.ok
        THEN SelectSeq(SelectSeq(response.results, verified), new_series)
        ELSE <<>>

\* _search_recent_releases_all on the response of its request
search_recent_releases_all(response, current_year) ==
    LET new_series(comic) == is_new_series(comic, current_year)
    IN  IF response.ok
        THEN SelectSeq(SelectSeq(response.results, is_marvel_or_dc_comic), new_series)
        ELSE <<>>

\* the ids of the records of a list
ids_of(comics) == { comics[i].id : i \in DOMAIN comics }

\* a merge that appends every fallback record
extend_with_all(new_comics, fallback_comics) == new_comics \o fallback_comics

\* lines 538-541: the fallback records whose id no gathered record has
extend_with_fallback(new_comics, fallback_comics) ==
    LET existing_ids == ids_of(new_comics)
        unseen(comic) == comic.id \notin existing_ids
    IN  new_comics \o SelectSeq(fallback_comics, unseen)

\* the final filter without the test of the ids already kept
is_kept_no_dedupe(comic, unique) ==
    /\ comic.id # 0
    /\ is_marvel_or_dc_comic(comic)

\* lines 549-550: the final filter keeps a record with an id that no kept
\* record has and with a monitored publisher
is_kept(comic, unique) ==
    /\ comic.id # 0
    /\ comic.id \notin ids_of(unique)
    /\ is_marvel_or_dc_comic(comic)

\* lines 543-559: the values of unique_comics, a dict in insertion order
RECURSIVE unique_comics(_, _)
unique_comics(new_comics, unique) ==
    IF new_comics = <<>> THEN unique
    ELSE LET comic == Head(new_comics)
         IN  unique_comics(Tail(new_comics),
                 IF is_kept(comic, unique) THEN Append(unique, comic) ELSE unique)

\* line 534: the publisher searches gathered too few results
needs_fallback(new_comics) == Len(new_comics) < FallbackThreshold

\* lines 534-541: the gathered list after the fallback search, when it runs
with_fallback(new_comics, fallback_response, current_year) ==
    IF needs_fallback(new_comics)
    THEN extend_with_fallback(new_comics, search_recent_releases_all(fallback_response, current_year))
    ELSE new_comics

----------------------------------------------------------------------------
(* The queue poller: check_download_queue and what it calls *)

\* str.lower() on the status strings the queue responses of the model carry
Lower(s) ==
    CASE s = "Downloading" -> "downloading"
      [] s = "Completed" -> "completed"
      [] s = "Paused" -> "paused"
      [] OTHER -> s

\* a notifiable set that holds the paused status too
notify_statuses_with_paused ==
    { "queued", "downloading", "snatched", "grabbed", "completed",
      "importing", "failed", "canceled", "cancelled", "finished", "paused" }

\* lines 213-216
notify_statuses ==
    { "queued", "downloading", "snatched", "grabbed", "completed",
      "importing", "failed", "canceled", "cancelled", "finished" }

active_statuses == { "downloading", "queued" }

\* f"download_{download_id}_{status}": one key for each (id, status) pair
notification_key(download_id, status) == [id |-> download_id, status |-> status]

\* A queue item of a response; 0 stands for a missing (None) id
QueueItemValues ==
    { [id |-> 1, volume_id |-> 7, status |-> "Downloading", progress |-> 40],
      [id |-> 1, volume_id |-> 7, status |-> "downloading", progress |-> 0],
      [id |-> 1, volume_id |-> 7, status |-> "Completed", progress |-> 100],
      [id |-> 1, volume_id |-> 7, status |-> "Paused", progress |-> 40],
      [id |-> 0, volume_id |-> 7, status |-> "completed", progress |-> 100],
      [id |-> 1, volume_id |-> 0, status |-> "completed", progress |-> 100] }

NoStep == [op |-> "none"]

\* a cleanup that runs at every poll
cleanup_due_always(t, lc) == TRUE

\* lines 147 and 26-28: more than the cleanup interval since the last pass

cleanup_due(t, lc) == t - lc > NotificationCleanupInterval

old_keys(nd, t) == { k \in DOMAIN nd : nd[k] < t - CleanupAge }

\* _cleanup_old_notifications: the ledger and the last-cleanup time after it
cleanup_old_notifications(nd, lc, t) ==
    IF cleanup_due(t, lc)
    THEN [nd |-> Restrict(nd, (DOMAIN nd) \ old_keys(nd, t)), lc |-> t]
    ELSE [nd |-> nd, lc |-> lc]

\* is_suppressed without the 30 minute window: an active item with progress
\* is notified at every poll
is_suppressed_no_window(key, status, progress, nd, t) ==
    /\ key \in DOMAIN nd
    /\ ~(status \in active_statuses /\ progress > 0)

\* is_suppressed that holds back only the statuses that are not active
is_suppressed_inactive_only(key, status, progress, nd, t) ==
    /\ key \in DOMAIN nd
    /\ status \notin active_statuses

\* lines 205-211: the item's key is in the ledger and the item is not re-notified
is_suppressed(key, status, progress, nd, t) ==
    /\ key \in DOMAIN nd
    /\ IF status \in active_statuses /\ progress > 0
       THEN t - nd[key] < RenotifyWindow
       ELSE TRUE

\* _process_queue_item that records the key although the detail is missing
process_queue_item_record_always(item, nd, t, details, sent) ==
    LET status == Lower(item.status)
        key == notification_key(item.id, status)
        skip == [nd |-> nd, emitted |-> {}, fetched |-> FALSE]
    IN  IF item.volume_id = 0 \/ item.id = 0 THEN skip
        ELSE IF is_suppressed(key, status, item.progress, nd, t) THEN skip
        ELSE IF status \notin notify_statuses THEN skip
        ELSE [nd |-> Put(nd, key, t),
              emitted |-> IF details /\ sent THEN {key} ELSE {},
              fetched |-> TRUE]

\* _process_queue_item on `item` at time t.  `details` says that
\* get_volume_details returned a non-empty record, `sent` that
\* _send_download_notification delivered the message to the channel.
process_queue_item(item, nd, t, details, sent) ==
    LET status == Lower(item.status)
        key == notification_key(item.id, status)
        skip == [nd |-> nd, emitted |-> {}, fetched |-> FALSE]
    IN  IF item.volume_id = 0 \/ item.id = 0 THEN skip
        ELSE IF is_suppressed(key, status, item.progress, nd, t) THEN skip
        ELSE IF status \notin notify_statuses THEN skip
        ELSE IF ~details THEN [nd |-> nd, emitted |-> {}, fetched |-> TRUE]
        ELSE [nd |-> Put(nd, key, t),
              emitted |-> IF sent THEN {key} ELSE {},
              fetched |-> TRUE]

\* the delivered notifications after a step that delivered those of `emitted`
log_sent(log, emitted, t) ==
    [k \in (DOMAIN log) \cup emitted |->
        IF k \in emitted
        THEN [count |-> (IF k \in DOMAIN log THEN log[k].count ELSE 0) + 1, last |-> t]
        ELSE log[k]]

\* check_download_queue up to the answer of the queue request: the cleanup,
\* then the request, which fails (ok = FALSE) or returns a list of items
CheckDownloadQueue ==
    /\ qpc = "idle"
    /\ LET c == cleanup_old_notifications(notified_downloads, last_cleanup, now)
       IN  /\ notified_downloads' = c.nd
           /\ last_cleanup' = c.lc
    /\ \E ok \in BOOLEAN :
           /\ qpc' = IF ok THEN "items" ELSE "idle"
           /\ qstep' = [op |-> "poll", ok |-> ok]
    /\ UNCHANGED <<now, sent_log, call, avars>>

\* the loop body of check_download_queue: one _process_queue_item call on the
\* next item of the response.  The answers of the library and of the channel
\* are inputs of the step; an answer the step does not ask for is not drawn.
ProcessQueueItem ==
    /\ qpc = "items"
    /\ \E item \in QueueItemValues, details \in BOOLEAN, sent \in BOOLEAN :
           LET r == process_queue_item(item, notified_downloads, now, details, sent)
           IN  /\ r.fetched \/ ~details
               /\ details \/ ~sent
               /\ notified_downloads' = r.nd
               /\ sent_log' = log_sent(sent_log, r.emitted, now)
               /\ qstep' = [op |-> "item", item |-> item,
                            details |-> details, sent |-> sent,
                            fetched |-> r.fetched, emitted |-> r.emitted]
    /\ UNCHANGED <<now, last_cleanup, qpc, call, avars>>

\* a poll that drops the library cache when it returns
EndDownloadQueueDropsCache ==
    /\ qpc = "items"
    /\ qpc' = "idle"
    /\ qstep' = [op |-> "end"]
    /\ existing_comics_cache' = {}
    /\ last_cache_update' = -1
    /\ UNCHANGED <<now, notified_downloads, last_cleanup, sent_log, call,
                   library, run, cstep, populated_at>>

\* the response has no further item: check_download_queue returns
EndDownloadQueue ==
    /\ qpc = "items"
    /\ qpc' = "idle"
    /\ qstep' = [op |-> "end"]
    /\ UNCHANGED <<now, notified_downloads, last_cleanup, sent_log, call, avars>>

\* the wall clock moves on
Tick ==
    /\ \E t \in Instants : t > now /\ now' = t
    /\ qstep' = NoStep
    /\ cstep' = NoCacheStep
    /\ UNCHANGED <<notified_downloads, last_cleanup, qpc, sent_log, call,
                   existing_comics_cache, last_cache_update, library, run, populated_at>>

InitQueue ==
    /\ notified_downloads = EmptyMap
    /\ last_cleanup = 0
    /\ qpc = "idle"
    /\ qstep = NoStep
    /\ sent_log = EmptyMap

----------------------------------------------------------------------------
(* The existing-library cache: get_existing_comics *)

\* last_cache_update = None
NoTime == -1

\* cache_duration: 1 hour
CacheDuration == 60

\* COMIC_CHECK_INTERVAL_HOURS: the period of the daily task, 24 hours
CheckInterval == 1440

\* the answer to one request of a refresh: a 200 response, another status,
\* or an exception (no connection, a timeout, a body that is not JSON)
StageAnswers == { "ok", "http_error", "exception" }

\* cache_fresh without the age test: a filled cache never expires
cache_fresh_no_expiry(cache, lcu, t) ==
    /\ lcu # NoTime
    /\ cache # {}

\* cache_fresh without the test of the set: an empty cache answers too
cache_fresh_even_empty(cache, lcu, t) ==
    /\ lcu # NoTime
    /\ t - lcu < CacheDuration

\* lines 36-38: the cache answers without a request (a datetime is truthy,
\* None is not; an empty set is not)
cache_fresh(cache, lcu, t) ==
    /\ lcu # NoTime
    /\ t - lcu < CacheDuration
    /\ cache # {}

\* get_existing_comics that answers with the cached set when the volume-list
\* request fails
get_existing_comics_stale(cache, lcu, t, lib, answers) ==
    IF cache_fresh(cache, lcu, t)
    THEN [result |-> cache, cache |-> cache, lcu |-> lcu, requests |-> <<>>]
    ELSE IF answers.about # "ok"
    THEN [result |-> {}, cache |-> cache, lcu |-> lcu, requests |-> <<"about">>]
    ELSE IF answers.stats = "ok" /\ Cardinality(lib) = 0
    THEN [result |-> {}, cache |-> {}, lcu |-> t, requests |-> <<"about", "stats">>]
    ELSE IF answers.volumes = "ok"
    THEN [result |-> lib, cache |-> lib, lcu |-> t,
          requests |-> <<"about", "stats", "volumes">>]
    ELSE [result |-> cache, cache |-> cache, lcu |-> lcu,
          requests |-> <<"about", "stats", "volumes">>]

\* get_existing_comics that empties the cache when a request fails
get_existing_comics_drop_on_failure(cache, lcu, t, lib, answers) ==
    IF cache_fresh(cache, lcu, t)
    THEN [result |-> cache, cache |-> cache, lcu |-> lcu, requests |-> <<>>]
    ELSE IF answers.about # "ok"
    THEN [result |-> {}, cache |-> {}, lcu |-> -1, requests |-> <<"about">>]
    ELSE IF answers.stats = "ok" /\ Cardinality(lib) = 0
    THEN [result |-> {}, cache |-> {}, lcu |-> t, requests |-> <<"about", "stats">>]
    ELSE IF answers.volumes = "ok"
    THEN [result |-> lib, cache |-> lib, lcu |-> t,
          requests |-> <<"about", "stats", "volumes">>]
    ELSE [result |-> {}, cache |-> {}, lcu |-> -1,
          requests |-> <<"about", "stats", "volumes">>]

\* get_existing_comics at time t against a library that holds the ids `lib`.
\* `answers` gives the answer to each request; the result names the returned
\* set, the cache fields after the call and the requests made, in order.
get_existing_comics(cache, lcu, t, lib, answers) ==
    IF cache_fresh(cache, lcu, t)
    THEN [result |-> cache, cache |-> cache, lcu |-> lcu, requests |-> <<>>]
    ELSE IF answers.about # "ok"
    THEN [result |-> {}, cache |-> cache, lcu |-> lcu, requests |-> <<"about">>]
    ELSE IF answers.stats = "ok" /\ Cardinality(lib) = 0
    THEN [result |-> {}, cache |-> {}, lcu |-> t, requests |-> <<"about", "stats">>]
    ELSE IF answers.volumes = "ok"
    THEN [result |-> lib, cache |-> lib, lcu |-> t,
          requests |-> <<"about", "stats", "volumes">>]
    ELSE [result |-> {}, cache |-> cache, lcu |-> lcu,
          requests |-> <<"about", "stats", "volumes">>]

\* the answers a call can get: one for each request it makes
AnswersOf(requests) ==
    { a \in [about : StageAnswers \cup {"unasked"},
             stats : StageAnswers \cup {"unasked"},
             volumes : StageAnswers \cup {"unasked"}] :
        /\ a.about = "unasked" <=> \A i \in DOMAIN requests : requests[i] # "about"
        /\ a.stats = "unasked" <=> \A i \in DOMAIN requests : requests[i] # "stats"
        /\ a.volumes = "unasked" <=> \A i \in DOMAIN requests : requests[i] # "volumes" }

----------------------------------------------------------------------------
(* The library client: add_comic *)

\* the responses of the library to the POST of add_comic, and a request that
\* raised
AddAnswers == { "created", "created_no_id", "unique_constraint", "volume_exists",
                "server_error", "exception" }

\* what the library does with the request: it adds a volume it does not hold,
\* and it rejects a volume it holds
add_possible(lib, cv_id, answer) ==
    CASE answer \in {"created", "created_no_id"} -> cv_id \notin lib
      [] answer \in {"unique_constraint", "volume_exists"} -> cv_id \in lib
      [] OTHER -> TRUE

library_after_add(lib, cv_id, answer) ==
    IF answer \in {"created", "created_no_id"} THEN lib \cup {cv_id} ELSE lib

\* the body of the response: its status, the id of its result and its error
add_response(cv_id, answer) ==
    CASE answer = "created" -> [status |-> 201, id |-> cv_id, error |-> NoKey]
      [] answer = "created_no_id" -> [status |-> 201, id |-> 0, error |-> NoKey]
      [] answer = "unique_constraint" ->
            [status |-> 400, id |-> 0, error |-> PyStr(s_UNIQUE_constraint_failed)]
      [] answer = "volume_exists" ->
            [status |-> 400, id |-> 0, error |-> PyStr(s_Volume_Already_Exists)]
      [] OTHER -> [status |-> 500, id |-> 0, error |-> NoKey]

\* add_comic that takes every response for a success
add_comic_any_status(cv_id, answer) ==
    IF answer = "exception"
    THEN [success |-> FALSE, volume_id |-> 0, message |-> s_timeout]
    ELSE [success |-> TRUE, volume_id |-> cv_id, message |-> s_Successfully_added]

\* add_comic: (success, volume_id, message)
add_comic(cv_id, answer) ==
    LET response == add_response(cv_id, answer)
        error_msg == IF response.error.t = "nokey" THEN s_HTTP_500 ELSE response.error.s
    IN  IF answer = "exception"
        THEN [success |-> FALSE, volume_id |-> 0, message |-> s_timeout]
        ELSE IF response.status = 201
        THEN IF response.id # 0
             THEN [success |-> TRUE, volume_id |-> response.id, message |-> s_Successfully_added]
             ELSE [success |-> FALSE, volume_id |-> 0, message |-> s_Failed_to_retrieve]
        ELSE IF \/ str_in(s_UNIQUE_constraint_failed, error_msg)
                \/ str_in(s_already_exists, str_lower(error_msg))
        THEN [success |-> FALSE, volume_id |-> 0, message |-> s_Comic_already_exists]
        ELSE [success |-> FALSE, volume_id |-> 0, message |-> error_msg]

----------------------------------------------------------------------------
(* The acquisition workflow: check_and_add_new_comics *)

\* the triggers of a run: the daily task and the manual command
Runs == { "daily", "manual" }

\* lines 796-803
NewResults ==
    [checked |-> 0, new_found |-> 0, added_successfully |-> 0,
     failed_to_add |-> 0, already_exists |-> 0, details |-> <<>>]

NoPrev == [valid |-> FALSE]

IdleRun ==
    [pc |-> "idle", existing |-> {}, releases |-> <<>>, todo |-> <<>>,
     results |-> NewResults, lib0 |-> {}, inval |-> FALSE, prev |-> NoPrev]

\* the new volumes the catalog of the runs holds
AcqCatalogue ==
    { Volume(1, s_Spawn, PyInt(BaseYear), Dict(31, PyStr(s_Marvel))),
      Volume(2, s_Spawn, PyNone, Dict(31, PyStr(s_Marvel))) }

\* the catalog ids of the volumes the library can hold
Ids == { c.id : c \in AcqCatalogue }

\* the responses of the catalog to the searches of a run: the first publisher
\* search answers with records of AcqCatalogue or fails, the other searches
\* find nothing
AcqResponses ==
    { FailedResponse }
        \cup { [ok |-> TRUE, results |-> r] : r \in SeqsUpTo(AcqCatalogue, MaxResults) }

EmptyResponse == [ok |-> TRUE, results |-> <<>>]

\* lines 526-532: the gathered list of the publisher searches
RECURSIVE gather(_, _, _)
gather(responses, n, current_year) ==
    IF n = 0 THEN <<>>
    ELSE gather(responses, n - 1, current_year)
            \o search_publisher_releases_by_id(monitored_publisher_ids[n].name,
                   monitored_publisher_ids[n].id, responses[n], current_year)

\* search_new_releases on the responses of its requests
search_new_releases(responses, fallback_response, current_year) ==
    unique_comics(
        with_fallback(gather(responses, Len(monitored_publisher_ids), current_year),
                      fallback_response, current_year),
        <<>>)

\* the list search_new_releases returns for each response of AcqResponses
AcqSearches ==
    [response \in AcqResponses |->
        search_new_releases(<<response, EmptyResponse, EmptyResponse>>,
                            EmptyResponse, BaseYear)]

\* the ids of the records of a list, in its order
id_list(comics) == [i \in DOMAIN comics |-> comics[i].id]

\* is_truly_new with the membership test inverted
is_truly_new_inverted(comic, existing_comics) ==
    comic.id # 0 /\ comic.id \in existing_comics

\* lines 818-827: the candidates with an id that the snapshot does not hold
is_truly_new(comic, existing_comics) == comic.id # 0 /\ comic.id \notin existing_comics

truly_new_of(new_releases, existing_comics) ==
    LET fresh(comic) == is_truly_new(comic, existing_comics)
    IN  SelectSeq(new_releases, fresh)

\* a test of the message that never finds a duplicate
says_exists_never(message) == FALSE

\* a test of the message that takes every failure for a duplicate
says_exists_always(message) == TRUE

\* `"already exists" in message.lower() or "unique constraint" in message.lower()`
says_exists(message) ==
    \/ str_in(s_already_exists, str_lower(message))
    \/ str_in(s_unique_constraint, str_lower(message))

Detail(kind, cv_id) == [kind |-> kind, id |-> cv_id]

\* a cache that is not told of the volumes the library holds
cache_add_nothing(cache, cv_id) == cache

\* lines 888-889 and 899-900: `if cv_id: self.existing_comics_cache.add(cv_id)`
cache_add(cache, cv_id) == IF cv_id # 0 THEN cache \cup {cv_id} ELSE cache

\* the kinds of detail of a candidate for which the add request was made
AddKinds == { "Added", "Exists", "Failed" }

\* an answer to the add request that is counted only when the add succeeded
add_outcome_counts_added_only(comic, results, cache, lib, answer) ==
    LET cv_id == comic.id
        added == add_comic(cv_id, answer)
    IN  IF added.success /\ added.volume_id # 0
        THEN [results |-> [results EXCEPT
                              !.added_successfully = @ + 1,
                              !.details = Append(@, Detail("Added", cv_id))],
              cache |-> cache_add(cache, cv_id),
              lib |-> library_after_add(lib, cv_id, answer), posted |-> TRUE]
        ELSE [results |-> [results EXCEPT
                              !.details = Append(@, Detail("Failed", cv_id))],
              cache |-> cache,
              lib |-> library_after_add(lib, cv_id, answer), posted |-> TRUE]

\* lines 882-903: _process_new_comic from the answer of the library to the
\* add request on
add_outcome(comic, results, cache, lib, answer) ==
    LET cv_id == comic.id
        added == add_comic(cv_id, answer)
        same == [results |-> results, cache |-> cache, lib |-> lib, posted |-> FALSE]
    IN  IF added.success /\ added.volume_id # 0
        THEN [same EXCEPT !.results.added_successfully = @ + 1,
                          !.results.details = Append(@, Detail("Added", cv_id)),
                          !.cache = cache_add(cache, cv_id),
                          !.lib = library_after_add(lib, cv_id, answer),
                          !.posted = TRUE]
        ELSE IF says_exists(added.message)
        THEN [same EXCEPT !.results.already_exists = @ + 1,
                          !.results.details = Append(@, Detail("Exists", cv_id)),
                          !.cache = cache_add(cache, cv_id),
                          !.lib = library_after_add(lib, cv_id, answer),
                          !.posted = TRUE]
        ELSE [same EXCEPT !.results.failed_to_add = @ + 1,
                          !.results.details = Append(@, Detail("Failed", cv_id)),
                          !.lib = library_after_add(lib, cv_id, answer),
                          !.posted = TRUE]

\* _process_new_comic without the test of the publisher
process_new_comic_any_publisher(comic, results, cache, lib, answer) ==
    IF comic.id # 0 /\ comic.id \in cache
    THEN [results |-> [results EXCEPT
                          !.already_exists = @ + 1,
                          !.details = Append(@, Detail("Skipped_cache", comic.id))],
          cache |-> cache, lib |-> lib, posted |-> FALSE]
    ELSE add_outcome(comic, results, cache, lib, answer)

\* _process_new_comic on `comic`: the results, the cache and the library
\* after it, for the answer of the library to the add request
process_new_comic(comic, results, cache, lib, answer) ==
    LET cv_id == comic.id
        same == [results |-> results, cache |-> cache, lib |-> lib, posted |-> FALSE]
    IN  IF ~is_marvel_or_dc_comic(comic)
        THEN [same EXCEPT !.results.failed_to_add = @ + 1,
                          !.results.details = Append(@, Detail("Skipped_publisher", cv_id))]
        ELSE IF cv_id # 0 /\ cv_id \in cache
        THEN [same EXCEPT !.results.already_exists = @ + 1,
                          !.results.details = Append(@, Detail("Skipped_cache", cv_id))]
        ELSE add_outcome(comic, results, cache, lib, answer)

\* a loop that stops at the first candidate that failed
rest_of_stop_on_failure(todo, outcome) ==
    LET details == outcome.results.details
    IN  IF details[Len(details)].kind = "Failed" THEN <<>> ELSE Tail(todo)

\* lines 832-836: the candidates left after the one just processed
rest_of(todo, outcome) == Tail(todo)

\* an end of run that leaves the cache as it is
cache_at_end_no_clear(results, cache, lcu) == [cache |-> cache, lcu |-> lcu]

\* lines 838-841: the cache fields at the end of a run
cache_at_end(results, cache, lcu) ==
    IF results.added_successfully > 0
    THEN [cache |-> {}, lcu |-> NoTime]
    ELSE [cache |-> cache, lcu |-> lcu]

\* lines 806-807: a run starts and takes its snapshot of the library.  The
\* set get_existing_comics returns from the cache or from a refresh is the
\* cache object itself; the run reads it in its next step, before any add.
StartRun(r) ==
    /\ run[r].pc \in {"idle", "done"}
    /\ \E answers \in AnswersOf(<<"about", "stats", "volumes">>) \cup AnswersOf(<<"about", "stats">>)
                        \cup AnswersOf(<<"about">>) \cup AnswersOf(<<>>) :
           LET g == get_existing_comics(existing_comics_cache, last_cache_update,
                                        now, library, answers)
           IN  /\ answers \in AnswersOf(g.requests)
               /\ existing_comics_cache' = g.cache
               /\ last_cache_update' = g.lcu
               /\ cstep' = [op |-> "get_existing_comics", run |-> r, answers |-> answers,
                            requests |-> g.requests, result |-> g.result]
               /\ populated_at' =
                      IF answers.volumes = "ok"
                      THEN IF library # {} THEN now ELSE NoTime
                      ELSE IF answers.stats = "ok" /\ answers.volumes = "unasked"
                      THEN NoTime
                      ELSE populated_at
               /\ run' = [run EXCEPT ![r] =
                      [IdleRun EXCEPT
                          !.pc = "search",
                          !.existing = g.result,
                          !.lib0 = library,
                          !.prev = IF run[r].pc = "done"
                                   THEN [valid |-> TRUE,
                                         releases |-> run[r].releases,
                                         failed_to_add |-> run[r].results.failed_to_add,
                                         inval |-> run[r].inval]
                                   ELSE NoPrev]]
    /\ UNCHANGED <<now, qvars, call, library>>

\* lines 809-830: the search, the counts, and the candidates to process; a
\* run with no candidate to process returns its results
SearchReleases(r) ==
    /\ run[r].pc = "search"
    /\ \E response \in AcqResponses :
           LET new_releases == AcqSearches[response]
               truly_new == truly_new_of(new_releases, run[r].existing)
               results == [NewResults EXCEPT
                              !.checked = Len(new_releases),
                              !.already_exists = Len(new_releases) - Len(truly_new),
                              !.new_found = Len(truly_new)]
           IN  run' = [run EXCEPT ![r].pc = IF truly_new = <<>> THEN "done" ELSE "process",
                                  ![r].releases = id_list(new_releases),
                                  ![r].todo = truly_new,
                                  ![r].results = results]
    /\ cstep' = NoCacheStep
    /\ UNCHANGED <<now, qvars, call, existing_comics_cache, last_cache_update,
                   library, populated_at>>

\* lines 832-836: _process_new_comic on the next candidate
ProcessNewComic(r) ==
    /\ run[r].pc = "process"
    /\ \E answer \in AddAnswers \cup {"unasked"} :
           LET comic == Head(run[r].todo)
               p == process_new_comic(comic, run[r].results, existing_comics_cache,
                                      library, answer)
               todo == rest_of(run[r].todo, p)
           IN  /\ add_possible(library, comic.id, answer)
               /\ p.posted <=> answer # "unasked"
               /\ existing_comics_cache' = p.cache
               /\ library' = p.lib
               /\ run' = [run EXCEPT ![r].pc = IF todo = <<>> THEN "finish" ELSE "process",
                                     ![r].todo = todo,
                                     ![r].results = p.results]
    /\ cstep' = NoCacheStep
    /\ UNCHANGED <<now, qvars, call, last_cache_update, populated_at>>

\* lines 838-849: the end of a run that processed candidates
FinishRun(r) ==
    /\ run[r].pc = "finish"
    /\ LET c == cache_at_end(run[r].results, existing_comics_cache, last_cache_update)
           cleared == run[r].results.added_successfully > 0
       IN  /\ existing_comics_cache' = c.cache
           /\ last_cache_update' = c.lcu
           /\ populated_at' = IF cleared THEN NoTime ELSE populated_at
           /\ run' = [run EXCEPT ![r].pc = "done", ![r].inval = cleared]
    /\ cstep' = NoCacheStep
    /\ UNCHANGED <<now, qvars, call, library>>

InitAcq ==
    /\ existing_comics_cache = {}
    /\ last_cache_update = NoTime
    /\ library = {}
    /\ run = [r \in Runs |-> IdleRun]
    /\ cstep = NoCacheStep
    /\ populated_at = NoTime

----------------------------------------------------------------------------
(* _is_new_series applied to the volumes of a bounded set *)

SeriesNames == { PyNone, PyStr(s_Spawn), PyStr(s_X_Men_Omnibus), PyStr(s_CLASSIC_X) }

SeriesDecks == { PyNone, PyStr(<<>>), PyStr(s_A_tpb) }

\* the start years a catalog record carries: none, 0, a year as a string, and
\* the integer years around the cut
StartYears(current_year) ==
    { PyNone, PyInt(0), PyStr(s_1992) }
        \cup { PyInt(y) : y \in (current_year - SeriesAge - YearSpan)..(current_year + 1) }

CurrentYears == BaseYear..(BaseYear + 1)

SeriesVolume(name, deck, start_year) ==
    [id |-> 1, name |-> name, deck |-> deck, start_year |-> start_year,
     publisher |-> Dict(31, PyStr(s_Marvel))]

SeriesCalls ==
    { [fn |-> "is_new_series", comic |-> SeriesVolume(n, d, y), current_year |-> cy, done |-> FALSE] :
        n \in SeriesNames, d \in SeriesDecks,
        y \in UNION { StartYears(c) : c \in CurrentYears }, cy \in CurrentYears }

IsNewSeries ==
    /\ call.fn = "is_new_series"
    /\ ~call.done
    /\ call' = [call EXCEPT !.done = TRUE] @@ [result |-> is_new_series(call.comic, call.current_year)]
    /\ UNCHANGED <<now, qvars, avars>>

----------------------------------------------------------------------------
(* search_new_releases, one step for each catalog request *)

\* the records the catalog of the model answers with: volumes of the three
\* publishers (one of them with a flat publisher string), a volume with no
\* id, two volumes of unmonitored publishers, and a collected edition
Catalogue ==
    { Volume(1, s_Spawn, PyInt(BaseYear), Dict(31, PyStr(s_Marvel))),
      Volume(2, s_Spawn, PyInt(BaseYear), Dict(10, PyStr(s_DC_Comics))),
      Volume(3, s_Spawn, PyNone, PyStr(s_Dark_Horse_Comics)),
      Volume(0, s_Spawn, PyInt(BaseYear), Dict(31, PyStr(s_Marvel))),
      Volume(5, s_Spawn, PyInt(BaseYear), Dict(99, PyStr(s_Image))),
      Volume(7, s_Spawn, PyInt(BaseYear), Dict(77, PyStr(s_Wildcard))),
      Volume(6, s_X_Men_Omnibus, PyInt(BaseYear), Dict(31, PyStr(s_Marvel))) }

CatalogResponses ==
    { FailedResponse } \cup { [ok |-> TRUE, results |-> r] : r \in SeqsUpTo(Catalogue, MaxResults) }

\* the name of the fallback query among the queries of a search
FallbackQuery == "fallback"

publisher_id_of(name) ==
    monitored_publisher_ids[
        CHOOSE i \in DOMAIN monitored_publisher_ids : monitored_publisher_ids[i].name = name].id

SearchStart ==
    [fn |-> "search_new_releases", pc |-> "publishers", next |-> 1,
     in_flight |-> {}, queries |-> <<>>, new_comics |-> <<>>, primary |-> <<>>,
     fallback |-> FALSE, result |-> <<>>]

\* a search that sends a request without awaiting the one before it
may_send_unawaited(c) == TRUE

\* lines 529 and 536: each request is awaited: the search sends a request
\* when no request of it is in flight
may_send(c) == c.in_flight = {}

\* the search after its gathered list is complete: the final filter
search_return(c, new_comics) ==
    [c EXCEPT !.pc = "done", !.new_comics = new_comics,
              !.result = unique_comics(new_comics, <<>>)]

\* lines 528-529: the request for the next monitored publisher is sent
SendPublisherQuery ==
    /\ call.fn = "search_new_releases"
    /\ call.pc = "publishers"
    /\ call.next <= Len(monitored_publisher_ids)
    /\ may_send(call)
    /\ LET name == monitored_publisher_ids[call.next].name
       IN  call' = [call EXCEPT !.next = @ + 1,
                                !.in_flight = @ \cup {name},
                                !.queries = Append(@, name)]
    /\ UNCHANGED <<now, qvars, avars>>

\* lines 529-532: the response to a publisher request; after the last one,
\* with 5 results or more, the final filter and the return
SearchPublisher ==
    /\ call.fn = "search_new_releases"
    /\ call.pc = "publishers"
    /\ \E name \in call.in_flight, response \in CatalogResponses :
           LET new_comics == call.new_comics
                   \o search_publisher_releases_by_id(name, publisher_id_of(name),
                                                      response, BaseYear)
               c == [call EXCEPT !.in_flight = @ \ {name}, !.new_comics = new_comics]
           IN  call' = IF c.next <= Len(monitored_publisher_ids) \/ c.in_flight # {}
                       THEN c
                       ELSE IF needs_fallback(new_comics)
                       THEN [c EXCEPT !.pc = "fallback", !.primary = new_comics]
                       ELSE search_return([c EXCEPT !.primary = new_comics], new_comics)
    /\ UNCHANGED <<now, qvars, avars>>

\* lines 534-536: the fallback request is sent
SendFallbackQuery ==
    /\ call.fn = "search_new_releases"
    /\ call.pc = "fallback"
    /\ ~call.fallback
    /\ may_send(call)
    /\ call' = [call EXCEPT !.fallback = TRUE,
                            !.in_flight = @ \cup {FallbackQuery},
                            !.queries = Append(@, FallbackQuery)]
    /\ UNCHANGED <<now, qvars, avars>>

\* lines 536-559: the response to the fallback request, the final filter and
\* the return
SearchFallback ==
    /\ call.fn = "search_new_releases"
    /\ call.pc = "fallback"
    /\ FallbackQuery \in call.in_flight
    /\ \E response \in CatalogResponses :
           call' = search_return([call EXCEPT !.in_flight = @ \ {FallbackQuery}],
                       with_fallback(call.new_comics, response, BaseYear))
    /\ UNCHANGED <<now, qvars, avars>>

----------------------------------------------------------------------------
(* A search in which the catalog answers one publisher query with three
   volumes of that publisher *)

\* the publisher field the catalog embeds in a volume of a monitored publisher
publisher_field(p) ==
    Dict(monitored_publisher_ids[p].id,
         PyStr(CASE p = 1 -> s_Marvel [] p = 2 -> s_DC_Comics [] OTHER -> s_Dark_Horse_Comics))

\* volumes of a monitored publisher: two new series, a collected edition, a
\* series that started before the year cut
ScenarioVolumes(p) ==
    { Volume(1, s_Spawn, PyInt(BaseYear), publisher_field(p)),
      Volume(4, s_Spawn, PyInt(BaseYear), publisher_field(p)),
      Volume(6, s_X_Men_Omnibus, PyInt(BaseYear), publisher_field(p)),
      Volume(8, s_Spawn, PyInt(BaseYear - SeriesAge - 1), publisher_field(p)) }

ScenarioResponses(p) ==
    { [ok |-> TRUE, results |-> <<a, b, c>>] : a, b, c \in ScenarioVolumes(p) }

\* the answers to the other queries of the search
OtherResponses ==
    { FailedResponse, EmptyResponse,
      [ok |-> TRUE, results |-> << Volume(2, s_Spawn, PyInt(BaseYear), publisher_field(2)) >>] }

ScenarioStart(p, r, o, f) ==
    [fn |-> "search_scenario", pc |-> "start", publisher |-> p,
     responses |-> [q \in DOMAIN monitored_publisher_ids |-> IF q = p THEN r ELSE o],
     fallback_response |-> f, result |-> <<>>]

ScenarioStarts ==
    UNION { UNION { { ScenarioStart(p, r, o, f) :
                        o \in OtherResponses, f \in OtherResponses \cup { r } } :
                    r \in ScenarioResponses(p) } :
            p \in DOMAIN monitored_publisher_ids }

\* lines 514-559: one search on the answers of the catalog
SearchScenario ==
    /\ call.fn = "search_scenario"
    /\ call.pc = "start"
    /\ call' = [call EXCEPT !.pc = "done",
                            !.result = search_new_releases(call.responses,
                                           call.fallback_response, BaseYear)]
    /\ UNCHANGED <<now, qvars, avars>>

----------------------------------------------------------------------------
(* The daily run and a manual run, one step between two suspension points *)

\* the set a run holds as existing_comics: the cache object itself, or a set
\* of its own
Alias == [alias |-> TRUE, set |-> {}]

Detached(set) == [alias |-> FALSE, set |-> set]

value_of(existing_comics, cache) ==
    IF existing_comics.alias THEN cache ELSE existing_comics.set

\* lines 796-803: a run that has not started
IdleTask ==
    [pc |-> "idle", existing_comics |-> Detached({}), new_releases |-> <<>>,
     truly_new |-> <<>>, i |-> 0,
     results |-> NewResults, in_flight |-> {}, posted |-> <<>>, searched |-> <<>>]

\* lines 78 and 118: the cache field is bound to a new set; a run that holds
\* the old cache object keeps it
rebound(tasks, cache) ==
    [q \in Runs |->
        IF tasks[q].existing_comics.alias
        THEN [tasks[q] EXCEPT !.existing_comics = Detached(cache)]
        ELSE tasks[q]]

\* the record of the catalog with the id; a run keeps the ids of its candidates
comic_of(cv_id) == CHOOSE c \in AcqCatalogue : c.id = cv_id

\* a run that goes on to the next candidate after every add
pc_after_add_no_search(kind) == "pause"

\* lines 884-892 and 836: after an add that succeeded the run sleeps and calls
\* the automatic search; after any other answer it returns to the loop
pc_after_add(kind) == IF kind = "Added" THEN "settle" ELSE "pause"

\* what the automatic search of a volume does: it finds download options,
\* finds none, gets an error response, or raises (unreachable, timeout)
SearchOutcomes == { "found", "nothing", "http_error", "exception" }

\* an automatic search whose failure takes the add back
auto_search_comic_counts_failure(results, outcome) ==
    IF outcome \in {"http_error", "exception"}
    THEN [results EXCEPT !.added_successfully = @ - 1, !.failed_to_add = @ + 1]
    ELSE results

\* lines 911-927 and kapowarr.py lines 367-404: manual_search answers [] for an
\* error response and for an exception, and _auto_search_comic only logs
auto_search_comic(results, outcome) == results

\* lines 832-849 and 851-882: the run from the candidate at index i up to its
\* next suspension point: the add request of the candidate, the sleep after
\* a candidate that was skipped, or the end of the run
loop_step(t, cache, lcu) ==
    IF t.i > Len(t.truly_new)
    THEN LET c == cache_at_end(t.results, cache, lcu)
         IN  [task |-> [t EXCEPT !.pc = "done"], cache |-> c.cache, lcu |-> c.lcu]
    ELSE LET comic == comic_of(t.truly_new[t.i])
             p == process_new_comic(comic, t.results, cache, {}, "exception")
         IN  IF p.posted
             THEN [task |-> [t EXCEPT !.pc = "adding", !.in_flight = {"add"},
                                      !.posted = Append(@, comic.id)],
                   cache |-> cache, lcu |-> lcu]
             ELSE [task |-> [t EXCEPT !.pc = "pause", !.results = p.results],
                   cache |-> cache, lcu |-> lcu]

\* lines 806 and 36-39: the run starts; a fresh cache answers with the cache
\* object, any other cache sends the requests to the library
TaskStart(r) ==
    /\ run[r].pc = "idle"
    /\ run' = IF cache_fresh(existing_comics_cache, last_cache_update, now)
              THEN [run EXCEPT ![r].pc = "searching", ![r].existing_comics = Alias]
              ELSE [run EXCEPT ![r].pc = "refreshing"]
    /\ UNCHANGED <<now, qvars, call, existing_comics_cache, last_cache_update,
                   library, populated_at>>
    /\ cstep' = NoCacheStep

\* lines 41-142: the answers of the library to the requests of the refresh
TaskRefreshed(r) ==
    /\ run[r].pc = "refreshing"
    /\ \E answers \in AnswersOf(<<"about", "stats", "volumes">>)
                        \cup AnswersOf(<<"about", "stats">>) \cup AnswersOf(<<"about">>) :
           LET g == get_existing_comics(existing_comics_cache, NoTime, now, library, answers)
               assigned == g.lcu # NoTime
               listed == assigned /\ answers.volumes = "ok"
           IN  /\ answers \in AnswersOf(g.requests)
               /\ existing_comics_cache' = IF assigned THEN g.cache ELSE existing_comics_cache
               /\ last_cache_update' = IF assigned THEN g.lcu ELSE last_cache_update
               /\ run' = [(IF assigned THEN rebound(run, existing_comics_cache) ELSE run)
                             EXCEPT ![r].pc = "searching",
                                    ![r].existing_comics =
                                        IF listed THEN Alias ELSE Detached({})]
    /\ UNCHANGED <<now, qvars, call, library, populated_at>>
    /\ cstep' = NoCacheStep

\* lines 809-834: the search returns; the counts, the candidates, and the
\* run up to its next suspension point
TaskSearched(r) ==
    /\ run[r].pc = "searching"
    /\ \E response \in AcqResponses :
           LET new_releases == AcqSearches[response]
               existing_comics == value_of(run[r].existing_comics, existing_comics_cache)
               truly_new == truly_new_of(new_releases, existing_comics)
               results == [NewResults EXCEPT
                              !.checked = Len(new_releases),
                              !.already_exists = Len(new_releases) - Len(truly_new),
                              !.new_found = Len(truly_new)]
               l == loop_step([run[r] EXCEPT !.new_releases = id_list(new_releases),
                                             !.truly_new = id_list(truly_new),
                                             !.results = results, !.i = 1],
                              existing_comics_cache, last_cache_update)
           IN  IF new_releases = <<>>
               THEN /\ run' = [run EXCEPT ![r].pc = "done", ![r].results = results]
                    /\ UNCHANGED <<existing_comics_cache, last_cache_update>>
               ELSE /\ run' = [run EXCEPT ![r] = l.task]
                    /\ existing_comics_cache' = l.cache
                    /\ last_cache_update' = l.lcu
    /\ UNCHANGED <<now, qvars, call, library, populated_at>>
    /\ cstep' = NoCacheStep

\* lines 882-903: the answer of the library to the add request
TaskAdded(r) ==
    /\ run[r].pc = "adding"
    /\ \E answer \in AddAnswers :
           LET comic == comic_of(run[r].truly_new[run[r].i])
               p == add_outcome(comic, run[r].results, existing_comics_cache,
                                library, answer)
               kind == p.results.details[Len(p.results.details)].kind
           IN  /\ add_possible(library, comic.id, answer)
               /\ existing_comics_cache' = p.cache
               /\ library' = p.lib
               /\ run' = [run EXCEPT ![r].pc = pc_after_add(kind),
                                     ![r].results = p.results,
                                     ![r].in_flight = {}]
               /\ cstep' = [op |-> "add_comic", run |-> r, id |-> comic.id,
                            answer |-> answer]
    /\ UNCHANGED <<now, qvars, call, last_cache_update, populated_at>>

\* lines 891-892 and 914: after the sleep the automatic search is requested
TaskAutoSearch(r) ==
    /\ run[r].pc = "settle"
    /\ run' = [run EXCEPT ![r].pc = "auto_search", ![r].in_flight = {"search"}]
    /\ UNCHANGED <<now, qvars, call, existing_comics_cache, last_cache_update,
                   library, populated_at>>
    /\ cstep' = NoCacheStep

\* lines 914-927: the automatic search returns or raises
TaskAutoSearched(r) ==
    /\ run[r].pc = "auto_search"
    /\ \E outcome \in SearchOutcomes :
           /\ run' = [run EXCEPT ![r].pc = "pause", ![r].in_flight = {},
                                 ![r].results = auto_search_comic(@, outcome),
                                 ![r].searched = Append(@, run[r].truly_new[run[r].i])]
           /\ cstep' = [op |-> "auto_search_comic", run |-> r,
                        id |-> run[r].truly_new[run[r].i], outcome |-> outcome]
    /\ UNCHANGED <<now, qvars, call, existing_comics_cache, last_cache_update,
                   library, populated_at>>

\* lines 836-849: the sleep after a candidate ends; the run goes on to its
\* next suspension point
TaskNext(r) ==
    /\ run[r].pc = "pause"
    /\ LET l == loop_step([run[r] EXCEPT !.i = @ + 1],
                          existing_comics_cache, last_cache_update)
       IN  /\ run' = [run EXCEPT ![r] = l.task]
           /\ existing_comics_cache' = l.cache
           /\ last_cache_update' = l.lcu
    /\ UNCHANGED <<now, qvars, call, library, populated_at>>
    /\ cstep' = NoCacheStep

----------------------------------------------------------------------------
(* The background tasks: the queue poller, the daily check and the connection
   monitor, one step for each iteration and one for each sleep *)

\* main.py line 69
MaxRetries == 5

\* what the external calls of an iteration do: they all answer, one answers
\* with an error, one raises (unreachable, timeout)
CallOutcomes == { "ok", "error_response", "exception" }

\* a loop task: `failed` tells whether the calls of its last iteration failed,
\* `beat` changes with every iteration
LoopTask == [pc |-> "due", failed |-> FALSE, beat |-> FALSE]

TasksStart ==
    [fn |-> "tasks",
     poller |-> [pc |-> "startup", retry_count |-> 0, failed |-> FALSE, beat |-> FALSE],
     daily |-> LoopTask,
     monitor |-> LoopTask]

\* one iteration of a loop that catches what its calls raise, then its sleep
iterate(task, outcome) ==
    [task EXCEPT !.pc = "sleeping", !.failed = outcome # "ok", !.beat = ~@]

\* a task that starts the polling loop after the last probe whatever it said
PollerProbeStartsAnyway ==
    /\ call.fn = "tasks"
    /\ call.poller.pc = "startup"
    /\ call.poller.retry_count < MaxRetries
    /\ \E outcome \in CallOutcomes :
           call' = IF outcome = "ok"
                   THEN [call EXCEPT !.poller.pc = "due"]
                   ELSE [call EXCEPT
                            !.poller.retry_count = @ + 1,
                            !.poller.failed = TRUE,
                            !.poller.pc = IF call.poller.retry_count + 1 >= MaxRetries
                                          THEN "due" ELSE "startup"]
    /\ UNCHANGED <<now, qvars, avars>>

\* main.py lines 72-89: a readiness probe of the library; the fifth probe
\* that fails ends the task
PollerProbe ==
    /\ call.fn = "tasks"
    /\ call.poller.pc = "startup"
    /\ call.poller.retry_count < MaxRetries
    /\ \E outcome \in CallOutcomes :
           call' = IF outcome = "ok"
                   THEN [call EXCEPT !.poller.pc = "due"]
                   ELSE [call EXCEPT
                            !.poller.retry_count = @ + 1,
                            !.poller.failed = TRUE,
                            !.poller.pc = IF call.poller.retry_count + 1 >= MaxRetries
                                          THEN "stopped" ELSE "startup"]
    /\ UNCHANGED <<now, qvars, avars>>

\* comic_monitor.py lines 503-506 and 162-190: one poll of the queue
PollerIterate ==
    /\ call.fn = "tasks"
    /\ call.poller.pc = "due"
    /\ \E outcome \in CallOutcomes : call' = [call EXCEPT !.poller = iterate(@, outcome)]
    /\ UNCHANGED <<now, qvars, avars>>

\* comic_monitor.py lines 506 and 512: the sleep of the poller ends
PollerWake ==
    /\ call.fn = "tasks"
    /\ call.poller.pc = "sleeping"
    /\ call' = [call EXCEPT !.poller.pc = "due"]
    /\ UNCHANGED <<now, qvars, avars>>

\* main.py lines 39-60: one daily check
DailyIterate ==
    /\ call.fn = "tasks"
    /\ call.daily.pc = "due"
    /\ \E outcome \in CallOutcomes : call' = [call EXCEPT !.daily = iterate(@, outcome)]
    /\ UNCHANGED <<now, qvars, avars>>

\* main.py line 62
DailyWake ==
    /\ call.fn = "tasks"
    /\ call.daily.pc = "sleeping"
    /\ call' = [call EXCEPT !.daily.pc = "due"]
    /\ UNCHANGED <<now, qvars, avars>>

\* main.py lines 98-113: one round of the connection monitor
MonitorIterate ==
    /\ call.fn = "tasks"
    /\ call.monitor.pc = "due"
    /\ \E outcome \in CallOutcomes : call' = [call EXCEPT !.monitor = iterate(@, outcome)]
    /\ UNCHANGED <<now, qvars, avars>>

\* main.py line 115
MonitorWake ==
    /\ call.fn = "tasks"
    /\ call.monitor.pc = "sleeping"
    /\ call' = [call EXCEPT !.monitor.pc = "due"]
    /\ UNCHANGED <<now, qvars, avars>>

----------------------------------------------------------------------------
(* _process_new_comic applied to one candidate, for each answer of the library *)

\* the candidates of the calls: the volumes of the catalog of the runs, and a
\* volume of a publisher that is not on the allow-list
ProcessComics ==
    AcqCatalogue \cup { Volume(3, s_Spawn, PyInt(BaseYear), Dict(513, PyStr(s_Image))) }

\* the calls: a candidate, the cache and the library at the call, the counts
\* so far, and the answer of the library to the add request
ProcessCalls ==
    { c \in [fn : {"process_new_comic"}, comic : ProcessComics, cache : SUBSET Ids,
             lib : SUBSET Ids, results : {NewResults}, answer : AddAnswers,
             done : {FALSE}] :
        add_possible(c.lib, c.comic.id, c.answer) }

\* lines 851-909
ProcessNewComicCall ==
    /\ call.fn = "process_new_comic"
    /\ ~call.done
    /\ call' = [call EXCEPT !.done = TRUE]
                 @@ [after |-> process_new_comic(call.comic, call.results, call.cache,
                                                 call.lib, call.answer)]
    /\ UNCHANGED <<now, qvars, avars>>

----------------------------------------------------------------------------
(* Specifications *)

InitSeries ==
    /\ now = 0
    /\ InitQueue
    /\ InitAcq
    /\ call \in SeriesCalls

NextSeries == IsNewSeries

SpecSeries == InitSeries /\ [][NextSeries]_vars

\* the two runs against a library that holds none of the volumes yet
InitRuns ==
    /\ now = 0
    /\ InitQueue
    /\ call = NoCall
    /\ existing_comics_cache = {}
    /\ last_cache_update = NoTime
    /\ library = {}
    /\ run = [r \in Runs |-> IdleTask]
    /\ cstep = NoCacheStep
    /\ populated_at = NoTime

NextRuns ==
    \/ TaskStart("daily")
    \/ TaskRefreshed("daily")
    \/ TaskSearched("daily")
    \/ TaskAdded("daily")
    \/ TaskAutoSearch("daily")
    \/ TaskAutoSearched("daily")
    \/ TaskNext("daily")
    \/ TaskStart("manual")
    \/ TaskRefreshed("manual")
    \/ TaskSearched("manual")
    \/ TaskAdded("manual")
    \/ TaskAutoSearch("manual")
    \/ TaskAutoSearched("manual")
    \/ TaskNext("manual")

SpecRuns == InitRuns /\ [][NextRuns]_vars

InitTasks ==
    /\ now = 0
    /\ InitQueue
    /\ InitAcq
    /\ call = TasksStart

NextTasks ==
    \/ PollerProbe
    \/ PollerIterate
    \/ PollerWake
    \/ DailyIterate
    \/ DailyWake
    \/ MonitorIterate
    \/ MonitorWake

\* the event loop runs every task that is ready, and every sleep ends
FairTasks ==
    /\ WF_vars(PollerProbe)
    /\ WF_vars(PollerIterate)
    /\ WF_vars(PollerWake)
    /\ WF_vars(DailyIterate)
    /\ WF_vars(DailyWake)
    /\ WF_vars(MonitorIterate)
    /\ WF_vars(MonitorWake)

SpecTasks == InitTasks /\ [][NextTasks]_vars /\ FairTasks

InitProcess ==
    /\ now = 0
    /\ InitQueue
    /\ InitAcq
    /\ call \in ProcessCalls

NextProcess == ProcessNewComicCall

SpecProcess == InitProcess /\ [][NextProcess]_vars

(* add_comic from the ComicVine id of the candidate on *)

\* 'cv:'
s_cv == <<"c", "v", ":">>

\* 'Invalid ComicVine ID format: '
s_Invalid_format ==
    <<"I", "n", "v", "a", "l", "i", "d", " ", "C", "o", "m", "i", "c", "V", "i", "n", "e",
      " ", "I", "D", " ", "f", "o", "r", "m", "a", "t", ":", " ">>

\* 'None'
s_None == <<"N", "o", "n", "e">>

DigitChars == <<"0", "1", "2", "3", "4", "5", "6", "7", "8", "9">>

\* str.startswith
startswith(s, prefix) ==
    Len(s) >= Len(prefix) /\ SubSeq(s, 1, Len(prefix)) = prefix

\* raw_cv_id.replace('cv:', ''): every occurrence is removed, from the left
RECURSIVE remove_cv(_)
remove_cv(s) ==
    IF s = <<>> THEN <<>>
    ELSE IF startswith(s, s_cv) THEN remove_cv(SubSeq(s, Len(s_cv) + 1, Len(s)))
    ELSE <<Head(s)>> \o remove_cv(Tail(s))

\* the text is one that int() takes: decimal digits (the texts of the model
\* have no sign, blank or underscore)
is_int_text(s) ==
    /\ s # <<>>
    /\ \A i \in 1..Len(s) : \E d \in 1..Len(DigitChars) : DigitChars[d] = s[i]

digit_of(c) == (CHOOSE d \in 1..Len(DigitChars) : DigitChars[d] = c) - 1

RECURSIVE int_of_text(_)
int_of_text(s) ==
    IF s = <<>> THEN 0
    ELSE 10 * int_of_text(SubSeq(s, 1, Len(s) - 1)) + digit_of(s[Len(s)])

\* f"{raw_cv_id}" of an id that is None or a string
text_of(raw) == IF raw.t = "str" THEN raw.s ELSE s_None

\* kapowarr.py lines 271-279: the 'cv:' prefix is taken off a string, and
\* int() converts an integer or a decimal text and raises for anything else
convert_cv_id(raw) ==
    LET numeric_cv_id ==
            IF raw.t = "str" /\ startswith(raw.s, s_cv)
            THEN PyStr(remove_cv(raw.s)) ELSE raw
    IN  IF numeric_cv_id.t = "int" THEN [ok |-> TRUE, n |-> numeric_cv_id.n]
        ELSE IF numeric_cv_id.t = "str" /\ is_int_text(numeric_cv_id.s)
        THEN [ok |-> TRUE, n |-> int_of_text(numeric_cv_id.s)]
        ELSE [ok |-> FALSE, n |-> 0]

\* kapowarr.py lines 264-340: add_comic from the id of comic_data on;
\* `requested` says that the POST was attempted
add_comic_data(raw, answer) ==
    LET converted == convert_cv_id(raw)
    IN  IF ~converted.ok
        THEN [success |-> FALSE, volume_id |-> 0,
              message |-> s_Invalid_format \o text_of(raw), requested |-> FALSE]
        ELSE [requested |-> TRUE] @@ add_comic(converted.n, answer)

\* comic_monitor.py lines 884-903: the count the workflow raises for the
\* answer of add_comic
counted_as(added) ==
    IF added.success /\ added.volume_id # 0 THEN "added_successfully"
    ELSE IF says_exists(added.message) THEN "already_exists"
    ELSE "failed_to_add"

\* the ids of a catalog record: integers, decimal texts, texts that are not
\* numbers, and a missing id
RawIds ==
    { PyInt(1), PyInt(2), PyStr(<<"2">>), PyStr(<<"1", "2">>),
      PyStr(s_cv \o <<"1">>), PyStr(<<"a", "b", "c">>), PyStr(s_cv \o <<"x">>),
      PyStr(<<>>), PyStr(s_already_exists), PyNone }

AddCalls ==
    [fn : {"add_comic"}, raw : RawIds, answer : AddAnswers, done : {FALSE}]

AddComicCall ==
    /\ call.fn = "add_comic"
    /\ ~call.done
    /\ LET added == add_comic_data(call.raw, call.answer)
       IN  call' = [call EXCEPT !.done = TRUE]
                     @@ [added |-> added, counted |-> counted_as(added)]
    /\ UNCHANGED <<now, qvars, avars>>

InitAdd ==
    /\ now = 0
    /\ InitQueue
    /\ InitAcq
    /\ call \in AddCalls

NextAdd == AddComicCall

SpecAdd == InitAdd /\ [][NextAdd]_vars

(* The requests of the library client and of the catalogue *)

\* kapowarr.py: the operations of the library client that send one request
LibraryOps ==
    { "search_comics_detailed", "search_comics", "get_wanted_comics",
      "get_comic_library", "get_library_stats", "get_rename_preview",
      "add_comic", "get_volume_details", "manual_search", "download_comic",
      "check_connection" }

\* the operations that send one request to the catalogue
CatalogOps ==
    { "_search_publisher_releases_by_id", "_search_recent_releases_all",
      "get_comicvine_cover" }

\* the request is answered, runs into the ClientTimeout, or cannot connect
Transports == { "response", "timeout", "connection_error" }

Statuses == { 200, 201, 202, 204, 302, 400, 401, 404, 500 }

\* the body of a response: the envelope with its result, a JSON object with
\* an error and no result, or text that is not JSON
Bodies == { "envelope", "error_envelope", "not_json" }

\* the value an operation returns when it fails
empty_result(op) ==
    CASE op \in { "search_comics_detailed", "search_comics", "get_wanted_comics",
                  "get_comic_library", "manual_search",
                  "_search_publisher_releases_by_id",
                  "_search_recent_releases_all" } -> "[]"
      [] op \in { "get_library_stats", "get_rename_preview" } -> "{}"
      [] op \in { "get_volume_details", "get_comicvine_cover" } -> "None"
      [] op = "check_connection" -> "False"
      [] op = "add_comic" -> "(False, None, reason)"
      [] op = "download_comic" -> "(False, reason)"

\* a client that takes every 2xx status for a success
accepts_any_2xx(op, status) == status \in 200..299

\* the test of response.status of each operation: kapowarr.py lines 320, 429
\* and 38, 69, 104, 130, 176, 201, 356, 381, 456, 494; comic_monitor.py
\* lines 584 and 685
accepts(op, status) ==
    CASE op = "add_comic" -> status = 201
      [] op = "download_comic" -> status \in {200, 201, 202}
      [] OTHER -> status = 200

\* a client whose operations have no exception handler
guarded_never(op) == FALSE

\* the body of every operation is inside `try: ... except Exception`
guarded(op) == TRUE

\* what an operation returns for a response with a status it accepts
on_accepted(op, body) ==
    CASE op = "download_comic" -> "(True, message)"
      [] op = "check_connection" ->
            IF body = "not_json" THEN "False" ELSE "True"
      [] op = "add_comic" ->
            IF body = "envelope" THEN "(True, volume_id, message)"
            ELSE "(False, None, reason)"
      [] op = "get_volume_details" ->
            IF body = "envelope" THEN "value"
            ELSE IF body = "error_envelope" THEN "{}" ELSE "None"
      [] OTHER ->
            IF body = "envelope" THEN "value" ELSE empty_result(op)

\* one operation from its request to its return
client_request(op, transport, status, body) ==
    IF transport # "response"
    THEN IF guarded(op)
         THEN [raised |-> FALSE, value |-> empty_result(op)]
         ELSE [raised |-> TRUE, value |-> "exception"]
    ELSE IF accepts(op, status)
    THEN [raised |-> FALSE, value |-> on_accepted(op, body)]
    ELSE [raised |-> FALSE, value |-> empty_result(op)]

ClientCalls ==
    { [fn |-> "client_request", op |-> op, transport |-> tr, status |-> st,
       body |-> b, done |-> FALSE, result |-> [raised |-> FALSE, value |-> "pending"]] :
        op \in LibraryOps \cup CatalogOps, tr \in Transports,
        st \in Statuses, b \in Bodies }

ClientRequest ==
    /\ call.fn = "client_request"
    /\ ~call.done
    /\ call' = [call EXCEPT !.done = TRUE,
                            !.result = client_request(call.op, call.transport,
                                                      call.status, call.body)]
    /\ UNCHANGED <<now, qvars, existing_comics_cache, last_cache_update, library,
                   run, cstep, populated_at>>

InitClient ==
    /\ now = 0
    /\ InitQueue
    /\ InitAcq
    /\ call \in ClientCalls

NextClient == ClientRequest

SpecClient == InitClient /\ [][NextClient]_vars

(* The callers of the discovery pipeline *)

\* main.py line 376: the range the manual command accepts
MinDaysBack == 1
MaxDaysBack == 60

\* config.py line 33 and main.py line 373: the default of both callers
DefaultDaysBack == 7

\* the values a caller can hold: the integer of the command's argument, or of
\* the COMIC_CHECK_DAYS_BACK environment variable (config.py lines 8-13)
DaysBackValues ==
    { MinDaysBack - 2, MinDaysBack - 1, MinDaysBack, DefaultDaysBack,
      MaxDaysBack, MaxDaysBack + 1, MaxDaysBack + 30 }

NotStarted == [started |-> FALSE]

\* main.py lines 373-395: the command checks the range, probes the catalogue,
\* and calls manual_check(days_back)
comics_check_command(days_back, comicvine_ok) ==
    IF days_back < MinDaysBack \/ days_back > MaxDaysBack THEN NotStarted
    ELSE IF ~comicvine_ok THEN NotStarted
    ELSE [started |-> TRUE, days_back |-> days_back]

\* an iteration that starts the run without looking at the probes
daily_comic_check_unprobed(enabled, days_back, comicvine_ok, kapowarr_ok) ==
    IF ~enabled THEN NotStarted
    ELSE [started |-> TRUE, days_back |-> days_back]

\* main.py lines 40-55: one iteration of the daily job
daily_comic_check(enabled, days_back, comicvine_ok, kapowarr_ok) ==
    IF ~enabled THEN NotStarted
    ELSE IF comicvine_ok /\ kapowarr_ok
    THEN [started |-> TRUE, days_back |-> days_back]
    ELSE NotStarted

Callers == { "comics_check_command", "daily_comic_check" }

CallerCalls ==
    { [fn |-> "caller", caller |-> c, days_back |-> n, enabled |-> e,
       comicvine_ok |-> cv, kapowarr_ok |-> kp, done |-> FALSE,
       result |-> NotStarted] :
        c \in Callers, n \in DaysBackValues, e \in BOOLEAN,
        cv \in BOOLEAN, kp \in BOOLEAN }

CallerRuns ==
    /\ call.fn = "caller"
    /\ ~call.done
    /\ call' = [call EXCEPT
                  !.done = TRUE,
                  !.result =
                      IF call.caller = "comics_check_command"
                      THEN comics_check_command(call.days_back, call.comicvine_ok)
                      ELSE daily_comic_check(call.enabled, call.days_back,
                                             call.comicvine_ok, call.kapowarr_ok)]
    /\ UNCHANGED <<now, qvars, existing_comics_cache, last_cache_update, library,
                   run, cstep, populated_at>>

\* the daily job as a loop: its configuration, and what its last iteration
\* saw and did
DailyJobs ==
    { [fn |-> "daily_job", pc |-> "due", enabled |-> e, days_back |-> n,
       beat |-> FALSE, comicvine_ok |-> FALSE, kapowarr_ok |-> FALSE,
       result |-> NotStarted, adds |-> 0] :
        e \in BOOLEAN, n \in DaysBackValues }

\* main.py lines 40-60: one iteration; a run that was started sends an add
\* request for each of its candidates
DailyJobIterate ==
    /\ call.fn = "daily_job"
    /\ call.pc = "due"
    /\ \E cv \in BOOLEAN, kp \in BOOLEAN, n \in 0..MaxResults :
           LET result == daily_comic_check(call.enabled, call.days_back, cv, kp)
           IN  /\ ~result.started => n = 0
               /\ call' = [call EXCEPT !.pc = "sleeping", !.beat = ~@,
                                       !.comicvine_ok = cv, !.kapowarr_ok = kp,
                                       !.result = result, !.adds = n]
    /\ UNCHANGED <<now, qvars, avars>>

\* main.py line 62: the sleep of COMIC_CHECK_INTERVAL_HOURS ends
DailyJobWake ==
    /\ call.fn = "daily_job"
    /\ call.pc = "sleeping"
    /\ call' = [call EXCEPT !.pc = "due"]
    /\ UNCHANGED <<now, qvars, avars>>

InitDailyJob ==
    /\ now = 0
    /\ InitQueue
    /\ InitAcq
    /\ call \in DailyJobs

NextDailyJob ==
    \/ DailyJobIterate
    \/ DailyJobWake

\* the event loop runs the task when it is ready, and its sleep ends
FairDailyJob ==
    /\ WF_vars(DailyJobIterate)
    /\ WF_vars(DailyJobWake)

SpecDailyJob == InitDailyJob /\ [][NextDailyJob]_vars /\ FairDailyJob

(* The presence loop: rich_presence.py *)

\* the start_presence_loop calls of a behaviour, each one a task
Loops == 1..MaxLoops

\* rich_presence.py line 24 of __init__: no call yet, is_running = False
PresenceStart ==
    [fn |-> "presence", is_running |-> FALSE, loop |-> [k \in Loops |-> "none"]]

\* the loop of the call is between its first test of is_running and its return
LoopRunning(k) == call.loop[k] \in {"updating", "sleeping"}

\* rich_presence.py line 187 and main.py line 171: start_presence_loop is
\* called as a task, which the event loop runs later
StartCalled(k) ==
    /\ call.fn = "presence"
    /\ call.loop[k] = "none"
    /\ \A j \in Loops : j < k => call.loop[j] # "none"
    /\ call' = [call EXCEPT !.loop[k] = "created"]
    /\ UNCHANGED <<now, qvars, avars>>

\* lines 97-107: the call tests is_running and returns, or sets it and
\* enters the loop up to the await of update_presence
StartRuns(k) ==
    /\ call.fn = "presence"
    /\ call.loop[k] = "created"
    /\ call' = IF call.is_running
               THEN [call EXCEPT !.loop[k] = "returned"]
               ELSE [call EXCEPT !.is_running = TRUE, !.loop[k] = "updating"]
    /\ UNCHANGED <<now, qvars, avars>>

\* lines 107-109: update_presence returns (it catches what it raises) and the
\* loop sleeps
UpdateReturns(k) ==
    /\ call.fn = "presence"
    /\ call.loop[k] = "updating"
    /\ call' = [call EXCEPT !.loop[k] = "sleeping"]
    /\ UNCHANGED <<now, qvars, avars>>

\* lines 104 and 109: the sleep ends and `while self.is_running` is tested
SleepEnds(k) ==
    /\ call.fn = "presence"
    /\ call.loop[k] = "sleeping"
    /\ call' = [call EXCEPT !.loop[k] = IF call.is_running THEN "updating" ELSE "returned"]
    /\ UNCHANGED <<now, qvars, avars>>

\* lines 111-113: the task is cancelled at its await; the loop breaks
LoopCancelled(k) ==
    /\ call.fn = "presence"
    /\ LoopRunning(k)
    /\ call' = [call EXCEPT !.loop[k] = "returned"]
    /\ UNCHANGED <<now, qvars, avars>>

\* lines 119-122: stop_presence_loop
StopPresenceLoop ==
    /\ call.fn = "presence"
    /\ call' = [call EXCEPT !.is_running = FALSE]
    /\ UNCHANGED <<now, qvars, avars>>

InitPresence ==
    /\ now = 0
    /\ InitQueue
    /\ InitAcq
    /\ call = PresenceStart

NextPresence ==
    \/ \E k \in Loops : StartCalled(k)
    \/ \E k \in Loops : StartRuns(k)
    \/ \E k \in Loops : UpdateReturns(k)
    \/ \E k \in Loops : SleepEnds(k)
    \/ \E k \in Loops : LoopCancelled(k)
    \/ StopPresenceLoop

SpecPresence == InitPresence /\ [][NextPresence]_vars

InitCallers ==
    /\ now = 0
    /\ InitQueue
    /\ InitAcq
    /\ call \in CallerCalls

NextCallers == CallerRuns

SpecCallers == InitCallers /\ [][NextCallers]_vars

\* the daily run alone
NextRun ==
    \/ TaskStart("daily")
    \/ TaskRefreshed("daily")
    \/ TaskSearched("daily")
    \/ TaskAdded("daily")
    \/ TaskAutoSearch("daily")
    \/ TaskAutoSearched("daily")
    \/ TaskNext("daily")

SpecRun == InitRuns /\ [][NextRun]_vars

\* the readings of the clock at which the two tasks are observed: at
\* construction, and when the first cleanup of the ledger is due
StartInstants == { 0, NotificationCleanupInterval + TimeStep }

\* the queue poller and the daily run as two tasks of one event loop
InitTwoTasks ==
    /\ now \in StartInstants
    /\ InitQueue
    /\ call = NoCall
    /\ existing_comics_cache = {}
    /\ last_cache_update = NoTime
    /\ library = {}
    /\ run = [r \in Runs |-> IdleTask]
    /\ cstep = NoCacheStep
    /\ populated_at = NoTime

NextTwoTasks ==
    \/ CheckDownloadQueue
    \/ ProcessQueueItem
    \/ EndDownloadQueue
    \/ TaskStart("daily")
    \/ TaskRefreshed("daily")
    \/ TaskSearched("daily")
    \/ TaskAdded("daily")
    \/ TaskAutoSearch("daily")
    \/ TaskAutoSearched("daily")
    \/ TaskNext("daily")

SpecTwoTasks == InitTwoTasks /\ [][NextTwoTasks]_vars

InitScenario ==
    /\ now = 0
    /\ InitQueue
    /\ InitAcq
    /\ call \in ScenarioStarts

NextScenario == SearchScenario

SpecScenario == InitScenario /\ [][NextScenario]_vars

InitDiscovery ==
    /\ now = 0
    /\ InitQueue
    /\ InitAcq
    /\ call = SearchStart

NextDiscovery ==
    \/ SendPublisherQuery
    \/ SearchPublisher
    \/ SendFallbackQuery
    \/ SearchFallback

SpecDiscovery == InitDiscovery /\ [][NextDiscovery]_vars

Init ==
    /\ now = 0
    /\ InitQueue
    /\ InitAcq
    /\ call = NoCall

NextQueue ==
    \/ CheckDownloadQueue
    \/ ProcessQueueItem
    \/ EndDownloadQueue
    \/ Tick

SpecQueue == Init /\ [][NextQueue]_vars

\* the clock of the acquisition runs, up to the time of the next daily run
TickAcq == Tick /\ now' <= CheckInterval

NextAcq ==
    \/ StartRun("daily")
    \/ SearchReleases("daily")
    \/ ProcessNewComic("daily")
    \/ FinishRun("daily")
    \/ TickAcq

SpecAcq == Init /\ [][NextAcq]_vars

----------------------------------------------------------------------------
(* Properties of the queue poller *)

\* the key and the lowered status of the item the last step processed
StepStatus(st) == Lower(st.item.status)

StepKey(st) == notification_key(st.item.id, StepStatus(st))

\* the item of the step has both ids, an active status and progress
ActiveItem(st) ==
    /\ st.item.id # 0
    /\ st.item.volume_id # 0
    /\ StepStatus(st) \in active_statuses
    /\ st.item.progress > 0

\* C1: a queue item with a terminal status produces exactly one notification
\* ever for its (download id, status) key: no later poll that reports the same
\* id and status, at any later time, emits a further notification.
C1_TerminalNotifiedOnce ==
    \A k \in DOMAIN sent_log :
        k.status \notin active_statuses => sent_log[k].count <= 1

\* C2 as stated: for an active item with progress, a poll less than 30 minutes
\* after the last notification for its key emits nothing, and a poll at 30
\* minutes or more after it emits a notification and refreshes the key's
\* timestamp.
C2_AsStated ==
    [][ (qstep'.op = "item" /\ ActiveItem(qstep')
            /\ StepKey(qstep') \in DOMAIN sent_log
            /\ StepKey(qstep') \in DOMAIN notified_downloads)
        => IF now - sent_log[StepKey(qstep')].last < RenotifyWindow
           THEN qstep'.emitted = {}
           ELSE /\ qstep'.emitted = {StepKey(qstep')}
                /\ notified_downloads'[StepKey(qstep')] = now ]_vars

\* C2 amended: for an active item with progress whose key is in the ledger, a
\* poll less than 30 minutes after the key's timestamp emits nothing, asks the
\* library nothing and leaves the ledger alone; a poll at 30 minutes or more
\* asks for the volume detail and, when the detail is obtained, refreshes the
\* timestamp and emits a notification if the channel delivers it; without the
\* detail it emits nothing and leaves the ledger alone.  Two notifications
\* delivered for one active key are at least 30 minutes apart.
C2_RenotifyWindow ==
    [][ (qstep'.op = "item" /\ ActiveItem(qstep'))
        => LET key == StepKey(qstep')
           IN  /\ key \in DOMAIN notified_downloads =>
                     IF now - notified_downloads[key] < RenotifyWindow
                     THEN /\ qstep'.emitted = {}
                          /\ ~qstep'.fetched
                          /\ notified_downloads' = notified_downloads
                     ELSE /\ qstep'.fetched
                          /\ IF qstep'.details
                             THEN /\ notified_downloads' = Put(notified_downloads, key, now)
                                  /\ qstep'.emitted = IF qstep'.sent THEN {key} ELSE {}
                             ELSE /\ qstep'.emitted = {}
                                  /\ notified_downloads' = notified_downloads
               /\ (key \in qstep'.emitted /\ key \in DOMAIN sent_log) =>
                     now - sent_log[key].last >= RenotifyWindow ]_vars

\* C2 witness: an active item with progress has just been notified again, its
\* second notification, 30 minutes or more after the first
C2_Witness ==
    /\ qstep.op = "item"
    /\ ActiveItem(qstep)
    /\ qstep.emitted = {StepKey(qstep)}
    /\ sent_log[StepKey(qstep)].count = 2
    /\ now < NotificationCleanupInterval

----------------------------------------------------------------------------
(* Properties of the existing-library cache and of the acquisition runs *)

Failures == { "http_error", "exception" }

\* the ids of the candidates of run r that its snapshot does not hold
TrulyNewIds(r) ==
    LET fresh(id) == id # 0 /\ id \notin run[r].existing
    IN  SelectSeq(run[r].releases, fresh)

DetailIds(r) == [i \in DOMAIN run[r].results.details |-> run[r].results.details[i].id]

DetailKinds(r) == { run[r].results.details[i].kind : i \in DOMAIN run[r].results.details }

\* run r is the second of two finished runs on one candidate list, and the
\* first run did not end with the invalidation of the cache
SecondRun(r) ==
    /\ run[r].pc = "done"
    /\ run[r].prev.valid
    /\ run[r].prev.releases = run[r].releases
    /\ ~run[r].prev.inval

\* C3 as stated: the second of two runs on the same candidate list, with no
\* invalidation of the cache between them, adds nothing, and each of its
\* candidates is counted as already existing.
C3_AsStated ==
    \A r \in Runs :
        SecondRun(r) =>
            /\ run[r].results.added_successfully = 0
            /\ run[r].results.already_exists = run[r].results.checked

\* C3 amended: when the first of two runs on the same candidate list left no
\* candidate in failed_to_add and did not invalidate the cache, the second run
\* adds nothing, fails nothing, counts every candidate as already existing,
\* and sends no add request: each candidate is in the snapshot of the run or
\* is a hit of the cache.
C3_SecondRunAddsNothing ==
    \A r \in Runs :
        (SecondRun(r) /\ run[r].prev.failed_to_add = 0) =>
            /\ run[r].results.added_successfully = 0
            /\ run[r].results.failed_to_add = 0
            /\ run[r].results.already_exists = run[r].results.checked
            /\ DetailKinds(r) \subseteq {"Skipped_cache"}

\* C3 witness: a second run on the same two candidates, after a first run with
\* no failure and no invalidation, has skipped a candidate on a cache hit
C3_Witness ==
    /\ SecondRun("daily")
    /\ run["daily"].prev.failed_to_add = 0
    /\ Len(run["daily"].releases) = 2
    /\ "Skipped_cache" \in DetailKinds("daily")

\* C4: while the cache holds a non-empty set that the library filled at time T
\* and that was not invalidated since, a get_existing_comics call before
\* T + 1 hour returns the cached set and makes no request to the library, and
\* a call after T + 1 hour makes a request.
C4_CacheWindow ==
    [][ (cstep'.op = "get_existing_comics" /\ populated_at # NoTime)
        => /\ now < populated_at + CacheDuration =>
                 /\ cstep'.requests = <<>>
                 /\ cstep'.result = existing_comics_cache
                 /\ existing_comics_cache' = existing_comics_cache
           /\ now > populated_at + CacheDuration =>
                 /\ cstep'.requests # <<>>
                 /\ Head(cstep'.requests) = "about" ]_vars

\* C4 witness: a call later than the time the library filled the cache, and
\* within the hour, was answered from the cache
C4_Witness ==
    /\ cstep.op = "get_existing_comics"
    /\ cstep.requests = <<>>
    /\ cstep.result # {}
    /\ populated_at # NoTime
    /\ now > populated_at

\* C5 as stated: get_existing_comics returns the empty set whenever one of its
\* requests (liveness, volume count, volume list) fails.
C5_AsStated ==
    (cstep.op = "get_existing_comics"
        /\ \E stage \in DOMAIN cstep.answers : cstep.answers[stage] \in Failures)
        => cstep.result = {}

\* C5 amended: get_existing_comics returns the empty set, and leaves the cache
\* and its refresh time alone, when the liveness request or the volume-list
\* request fails; a failure of the volume-count request is passed over, and
\* the call returns and caches what the volume-list request delivers.  In
\* each case the call returns and the run goes on to its search.
C5_FailureReturnsEmpty ==
    [][ cstep'.op = "get_existing_comics"
        => LET a == cstep'.answers
           IN  /\ (a.about \in Failures \/ a.volumes \in Failures) =>
                     /\ cstep'.result = {}
                     /\ existing_comics_cache' = existing_comics_cache
                     /\ last_cache_update' = last_cache_update
               /\ (a.stats \in Failures /\ a.volumes = "ok") =>
                     /\ cstep'.result = library
                     /\ existing_comics_cache' = library
                     /\ last_cache_update' = now
               /\ run'[cstep'.run].pc = "search"
               /\ run'[cstep'.run].existing = cstep'.result ]_vars

\* C5 witness: a call whose volume-count request failed returned the ids of
\* the library
C5_Witness ==
    /\ cstep.op = "get_existing_comics"
    /\ cstep.answers.stats \in Failures
    /\ cstep.answers.volumes = "ok"
    /\ cstep.result # {}

\* C6: when a run finishes with added_successfully > 0, the cache is empty and
\* its refresh time is unset; and a get_existing_comics call with the refresh
\* time unset asks the library.
C6_InvalidateAfterAdd ==
    [][ /\ \A r \in Runs :
              (run[r].pc # "done" /\ run'[r].pc = "done"
                  /\ run'[r].results.added_successfully > 0)
              => /\ existing_comics_cache' = {}
                 /\ last_cache_update' = NoTime
        /\ (cstep'.op = "get_existing_comics" /\ last_cache_update = NoTime)
              => cstep'.requests # <<>> ]_vars

\* C6 witness: the run after a run that added a volume has filled its snapshot
\* from the library
C6_Witness ==
    /\ cstep.op = "get_existing_comics"
    /\ run["daily"].prev.valid
    /\ run["daily"].prev.inval
    /\ cstep.requests = <<"about", "stats", "volumes">>
    /\ cstep.result # {}

\* C7: every candidate that the snapshot does not hold is handed to
\* _process_new_comic, in order, whatever became of the candidates before it:
\* the candidates processed and the candidates left are the candidates that
\* the snapshot does not hold, none is left when the run has finished, and
\* each one processed was sent to the library or was a hit of the cache.
C7_EveryCandidateProcessed ==
    \A r \in Runs :
        /\ run[r].pc \in {"process", "finish", "done"} =>
              /\ DetailIds(r) \o id_list(run[r].todo) = TrulyNewIds(r)
              /\ DetailKinds(r) \subseteq AddKinds \cup {"Skipped_cache"}
              /\ run[r].results.new_found = Len(TrulyNewIds(r))
        /\ run[r].pc \in {"finish", "done"} => run[r].todo = <<>>

\* C7 witness: a finished run added a candidate after the add of an earlier
\* candidate had failed
C7_Witness ==
    /\ run["daily"].pc = "done"
    /\ \E i, j \in DOMAIN run["daily"].results.details :
           /\ i < j
           /\ run["daily"].results.details[i].kind = "Failed"
           /\ run["daily"].results.details[j].kind = "Added"

\* the candidates of run r were not in the library when it started, and no
\* add request of the run was rejected or failed
AllAddsSucceed(r) ==
    /\ run[r].pc = "done"
    /\ \A i \in DOMAIN run[r].releases : run[r].releases[i] \notin run[r].lib0
    /\ DetailKinds(r) \cap {"Exists", "Failed"} = {}

\* C8: a run on n candidates, none of them in the library, all of whose adds
\* succeed, returns checked = n, new_found = n, added_successfully = n,
\* failed_to_add = 0 and already_exists = 0.
C8_AllAddedCounts ==
    \A r \in Runs :
        AllAddsSucceed(r) =>
            LET n == Len(run[r].releases)
            IN  /\ run[r].results.checked = n
                /\ run[r].results.new_found = n
                /\ run[r].results.added_successfully = n
                /\ run[r].results.failed_to_add = 0
                /\ run[r].results.already_exists = 0

\* C8 witness: a finished run added both of its two candidates
C8_Witness ==
    /\ AllAddsSucceed("daily")
    /\ Len(run["daily"].releases) = 2
    /\ run["daily"].results.added_successfully = 2

----------------------------------------------------------------------------
(* Properties of the series heuristic *)

Digits == <<"0", "1", "2", "3", "4", "5", "6", "7", "8", "9">>

digit_value(c) == (CHOOSE i \in DOMAIN Digits : Digits[i] = c) - 1

RECURSIVE decimal_value(_)
decimal_value(s) ==
    IF s = <<>> THEN 0
    ELSE 10 * decimal_value(SubSeq(s, 1, Len(s) - 1)) + digit_value(s[Len(s)])

\* the year a start_year value states, as an integer or as a decimal string
year_number(v) == IF v.t = "int" THEN v.n ELSE decimal_value(v.s)

\* C10: _is_new_series rejects every volume whose start year is less than or
\* equal to current_year - 4, and does not reject on the year alone a volume
\* whose start year is greater than or equal to current_year - 3.
C10_YearCut ==
    (call.fn = "is_new_series" /\ call.done /\ call.comic.start_year.t \in {"int", "str"})
        => LET y == year_number(call.comic.start_year)
           IN  /\ y <= call.current_year - 4 => ~call.result
               /\ y >= call.current_year - 3 => (call.result <=> ~has_exclude_term(call.comic))

----------------------------------------------------------------------------
(* Properties of the discovery search *)

\* the position of the first record of a list with the id
first_index(comics, id) ==
    CHOOSE i \in DOMAIN comics :
        comics[i].id = id /\ \A j \in 1..(i - 1) : comics[j].id # id

\* C9: the list search_new_releases returns contains each catalog id at most
\* once, and its records are in the order in which their ids are first seen in
\* the gathered list.
C9_UniqueInFirstSeenOrder ==
    (call.fn = "search_new_releases" /\ call.pc = "done")
        => LET result == call.result
               gathered == call.new_comics
           IN  /\ \A i, j \in DOMAIN result : result[i].id = result[j].id => i = j
               /\ \A i \in DOMAIN result :
                      /\ result[i].id \in ids_of(gathered)
                      /\ result[i] = gathered[first_index(gathered, result[i].id)]
               /\ \A i, j \in DOMAIN result :
                      i < j => first_index(gathered, result[i].id)
                                  < first_index(gathered, result[j].id)

\* C9 witness: a search returned two records or more from a gathered list
\* in which an id of the result occurs twice
C9_Witness ==
    /\ call.fn = "search_new_releases"
    /\ call.pc = "done"
    /\ Len(call.result) >= 2
    /\ \E i, j \in DOMAIN call.new_comics :
           /\ i < j
           /\ call.new_comics[i].id = call.new_comics[j].id
           /\ call.new_comics[i].id \in ids_of(call.result)

\* the value is a string that holds a term of the exclusion list, in any case
HoldsTerm(v) ==
    /\ v.t = "str"
    /\ \E term \in exclude_terms : str_in(term, str_lower(v.s))

\* C11: _is_new_series rejects every volume whose name or deck holds a term
\* of the exclusion list, compared without regard to case, whatever its other
\* fields are, a missing or null name, deck or start year included.
C11_TermRejects ==
    (call.fn = "is_new_series" /\ call.done
        /\ (HoldsTerm(call.comic.name) \/ HoldsTerm(call.comic.deck)))
        => ~call.result

\* C11 witness: a volume with no name and no start year, whose deck holds a
\* term in upper case, was rejected
C11_Witness ==
    /\ call.fn = "is_new_series"
    /\ call.done
    /\ call.comic.name = PyNone
    /\ call.comic.start_year = PyNone
    /\ call.comic.deck = PyStr(s_A_tpb)
    /\ ~call.result

\* the step asked the library for the volume detail of an item whose key the
\* ledger did not hold
AskedForAbsentKey ==
    /\ qstep'.op = "item"
    /\ qstep'.fetched
    /\ StepKey(qstep') \notin DOMAIN notified_downloads

\* C19 as stated: when the key of a polled item is absent from the ledger and
\* the volume detail cannot be obtained, nothing is emitted and the key is not
\* recorded; a poll of the item with the key absent and the detail available
\* emits the notification.
C19_AsStated ==
    [][ AskedForAbsentKey
        => IF qstep'.details
           THEN qstep'.emitted = {StepKey(qstep')}
           ELSE /\ qstep'.emitted = {}
                /\ notified_downloads' = notified_downloads ]_vars

\* C19, amended: when the key of a polled item is absent from the ledger and
\* the volume detail cannot be obtained, nothing is emitted and the ledger is
\* left as it is, the key not recorded; a poll of the item with the key absent
\* and the detail available records the key and hands the notification to the
\* channel, and the notification is emitted when the channel delivers it.
C19_NoDetailNoRecord ==
    [][ AskedForAbsentKey
        => IF qstep'.details
           THEN /\ notified_downloads' = Put(notified_downloads, StepKey(qstep'), now)
                /\ qstep'.emitted = IF qstep'.sent THEN {StepKey(qstep')} ELSE {}
           ELSE /\ qstep'.emitted = {}
                /\ notified_downloads' = notified_downloads
                /\ sent_log' = sent_log ]_vars

\* the detail of an item could not be obtained: its key is not in the ledger
\* and no notification for it has ever been delivered
C19_Witness ==
    /\ qstep.op = "item"
    /\ qstep.fetched
    /\ ~qstep.details
    /\ qstep.emitted = {}
    /\ StepKey(qstep) \notin DOMAIN notified_downloads
    /\ StepKey(qstep) \notin DOMAIN sent_log

----------------------------------------------------------------------------
(* Properties of the discovery search: publishers, fallback, order *)

\* C12: every volume search_new_releases returns belongs to one of the three
\* monitored publisher ids (31, 10, 16): its embedded publisher id is one of
\* them.
C12_MonitoredPublisherIds ==
    (call.fn = "search_new_releases" /\ call.pc = "done")
        => \A i \in DOMAIN call.result :
               /\ call.result[i].publisher.t = "dict"
               /\ call.result[i].publisher.id \in monitored_ids

\* the search has returned
SearchDone == call.fn = "search_new_releases" /\ call.pc = "done"

\* how many times the search issued the fallback query
FallbackCount == Cardinality({i \in DOMAIN call.queries : call.queries[i] = FallbackQuery})

\* the positions of the gathered list that hold merged fallback records
MergedPositions == (Len(call.primary) + 1) .. Len(call.new_comics)

\* C13 as stated: the fallback query is issued exactly once when the publisher
\* queries yielded fewer than 5 results and not at all when they yielded 5 or
\* more, and every merged fallback record has an id that none of the records
\* gathered before it has (publisher records and fallback records merged
\* earlier alike).
C13_AsStated ==
    SearchDone =>
        /\ Len(call.primary) < 5 => FallbackCount = 1
        /\ Len(call.primary) >= 5 => FallbackCount = 0
        /\ \A k \in MergedPositions :
               call.new_comics[k].id \notin ids_of(SubSeq(call.new_comics, 1, k - 1))

\* C13, amended: the fallback query is issued exactly once when the publisher
\* queries yielded fewer than 5 results and not at all when they yielded 5 or
\* more, and every merged fallback record has an id that none of the records
\* of the publisher queries has.
C13_FallbackOnceMergeNew ==
    /\ FallbackCount <= 1
    /\ (call.fn = "search_new_releases" /\ call.pc = "publishers") => FallbackCount = 0
    /\ SearchDone =>
        /\ Len(call.primary) < 5 => FallbackCount = 1
        /\ Len(call.primary) >= 5 => FallbackCount = 0
        /\ \A k \in MergedPositions :
               call.new_comics[k].id \notin ids_of(call.primary)

\* a search with publisher results that merged a fallback record
C13_Witness ==
    /\ SearchDone
    /\ FallbackCount = 1
    /\ call.primary # <<>>
    /\ MergedPositions # {}

\* the order of the queries of a search: the monitored publishers in the
\* order of the table, then the fallback
QueryOrder ==
    [i \in DOMAIN monitored_publisher_ids |-> monitored_publisher_ids[i].name]
        \o <<FallbackQuery>>

IsPrefix(s, t) == Len(s) <= Len(t) /\ s = SubSeq(t, 1, Len(s))

\* C15: within one search at most one catalog query is in flight, the queries
\* are issued in the order Marvel, DC, Dark Horse, fallback, and a query is
\* issued only when every query issued before it has completed.
C15_SequentialQueries ==
    /\ [](Cardinality(call.in_flight) <= 1 /\ IsPrefix(call.queries, QueryOrder))
    /\ [][Len(call'.queries) > Len(call.queries) => call.in_flight = {}]_vars

\* a search that issued all four queries and returned
C15_Witness ==
    /\ SearchDone
    /\ call.queries = QueryOrder
    /\ call.in_flight = {}

\* the three volumes the catalog returned for the publisher of the scenario
Asked == call.responses[call.publisher].results

\* the name of the volume holds a term of the exclusion list
TermInName(comic) == HoldsTerm(comic.name)

\* the positions of the volumes without a term in the name
Others == { i \in DOMAIN Asked : ~TermInName(Asked[i]) }

\* the volumes without a term in the name, in the order of the response
OthersInOrder == SelectSeq(Asked, LAMBDA comic : ~TermInName(comic))

\* exactly one of the three volumes carries a term in its name
OneTermInName ==
    /\ call.fn = "search_scenario"
    /\ call.pc = "done"
    /\ Len(Asked) = 3
    /\ Cardinality(Others) = 2

\* no other query of the search yields a volume that is not one of the three
NothingElseFound ==
    /\ \A q \in DOMAIN monitored_publisher_ids :
           q # call.publisher =>
               search_publisher_releases_by_id(monitored_publisher_ids[q].name,
                   monitored_publisher_ids[q].id, call.responses[q], BaseYear) = <<>>
    /\ ids_of(search_recent_releases_all(call.fallback_response, BaseYear))
           \subseteq ids_of(Asked)

\* the two other volumes are two different volumes that pass the start year
\* test of the series heuristic
OthersAreNewSeries ==
    /\ \A i, j \in Others : i # j => Asked[i].id # Asked[j].id
    /\ \A i \in Others : ~too_old(Asked[i].start_year, BaseYear)

\* C14 as stated: when the catalog answers the query for one monitored
\* publisher with 3 volumes of that publisher, exactly one of which carries an
\* exclusion term in its name, the search returns exactly the 2 other volumes.
C14_AsStated == OneTermInName => call.result = OthersInOrder

\* C14, amended: the same, when the 2 other volumes are different volumes
\* that pass the start year test and no other query of the search yields a
\* further volume.
C14_TwoOfThree ==
    (OneTermInName /\ OthersAreNewSeries /\ NothingElseFound)
        => call.result = OthersInOrder

\* the scenario happened: three volumes, one collected edition, two returned
C14_Witness ==
    /\ OneTermInName
    /\ OthersAreNewSeries
    /\ NothingElseFound
    /\ Len(call.result) = 2

----------------------------------------------------------------------------
(* Properties of the runs, step by step *)

\* the ids of the candidates a run has finished with, in the order of its
\* details
TaskDetailIds(r) == [k \in DOMAIN run[r].results.details |-> run[r].results.details[k].id]

\* the ids of the candidates whose add succeeded
TaskAddedIds(r) ==
    { run[r].results.details[k].id :
        k \in { j \in DOMAIN run[r].results.details : run[r].results.details[j].kind = "Added" } }

\* the position of an id in the discovery result of a run
PositionIn(seq, x) == CHOOSE k \in DOMAIN seq : seq[k] = x

\* the add request of the candidate at index i of the run is in flight
AddInFlight(r) == run[r].pc = "adding"

\* C16: within a run the candidates are processed in the order of the
\* discovery result, at most one request of the run is in flight, and while
\* the add request of a candidate is in flight every candidate before it is
\* finished with: its add request has been answered and, when the add
\* succeeded, its automatic search has returned.
C16_CandidatesInOrder ==
    \A r \in Runs :
        /\ Cardinality(run[r].in_flight) <= 1
        /\ TaskDetailIds(r) = SubSeq(run[r].truly_new, 1, Len(run[r].results.details))
        /\ \A a, b \in DOMAIN run[r].posted :
               a < b => PositionIn(run[r].new_releases, run[r].posted[a])
                          < PositionIn(run[r].new_releases, run[r].posted[b])
        /\ AddInFlight(r) =>
               /\ run[r].in_flight = {"add"}
               /\ Len(run[r].results.details) = run[r].i - 1
               /\ run[r].posted[Len(run[r].posted)] = run[r].truly_new[run[r].i]
               /\ \A x \in TaskAddedIds(r) :
                      \E k \in DOMAIN run[r].searched : run[r].searched[k] = x

\* a run that added two candidates, one after the other
C16_Witness ==
    \E r \in Runs :
        /\ run[r].pc = "done"
        /\ Len(run[r].posted) = 2
        /\ Len(run[r].searched) = 2
        /\ run[r].in_flight = {}

----------------------------------------------------------------------------
(* Properties of the background tasks *)

\* after an iteration or a probe whose external call failed, the task
\* performs another iteration
IteratesAgain(task) ==
    \A b \in BOOLEAN :
        (call[task].failed /\ call[task].beat = b) ~> (call[task].beat # b)

\* C17: no failure of an external call ends a background task: after any
\* such failure the queue poller, the daily check and the connection monitor
\* each perform another iteration.
C17_TasksKeepIterating ==
    /\ IteratesAgain("poller")
    /\ IteratesAgain("daily")
    /\ IteratesAgain("monitor")

\* the part of C17 that holds: the loops of the daily check and of the
\* connection monitor, and the loop of the poller once it has started
LoopsKeepIterating ==
    /\ IteratesAgain("daily")
    /\ IteratesAgain("monitor")
    /\ \A b \in BOOLEAN :
           (call.poller.pc # "startup" /\ call.poller.pc # "stopped"
               /\ call.poller.failed /\ call.poller.beat = b) ~> (call.poller.beat # b)

\* the ids for which the run has submitted an add request
PostedIds(r) == { run[r].posted[k] : k \in DOMAIN run[r].posted }

\* the run takes this step
Acts(r) == run'[r].pc # run[r].pc \/ run'[r].i # run[r].i

\* the step writes the cache: an insert, a clear, or a refresh
WritesCache ==
    \/ existing_comics_cache' # existing_comics_cache
    \/ last_cache_update' # last_cache_update

\* C18: the two runs never both submit an add request for the same catalog
\* id, and no run writes the cache (insert, clear, refresh) while the other
\* run is between its check of the cache for a candidate and the insert that
\* follows the answer to its add request.
C18_SingleWriter ==
    /\ [](PostedIds("daily") \cap PostedIds("manual") = {})
    /\ [][\A r, q \in Runs :
            (r # q /\ Acts(r) /\ WritesCache) => run[q].pc # "adding"]_vars

\* both runs have submitted an add request for the same id
BothPosted == PostedIds("daily") \cap PostedIds("manual") # {}

----------------------------------------------------------------------------
(* Properties of _process_new_comic *)

\* the answers of the library that reject a volume it holds: a uniqueness
\* constraint of its database, a volume that already exists
DuplicateAnswers == { "unique_constraint", "volume_exists" }

\* the call made the add request and the library rejected it as a duplicate
RejectedAsDuplicate ==
    /\ call.fn = "process_new_comic"
    /\ call.done
    /\ call.after.posted
    /\ call.answer \in DuplicateAnswers

\* C20: when the library rejects the add with a message of a uniqueness or
\* duplicate constraint, the candidate is counted in already_exists, not in
\* failed_to_add and not in added_successfully, and its catalog id is in the
\* cache after the call.
C20_DuplicateCountsAsExists ==
    RejectedAsDuplicate =>
        /\ call.after.results.already_exists = call.results.already_exists + 1
        /\ call.after.results.failed_to_add = call.results.failed_to_add
        /\ call.after.results.added_successfully = call.results.added_successfully
        /\ call.after.cache = call.cache \cup { call.comic.id }
        /\ call.after.lib = call.lib

\* the library rejected a volume it holds and the cache did not hold
C20_Witness ==
    /\ RejectedAsDuplicate
    /\ call.comic.id \in call.lib
    /\ call.comic.id \notin call.cache
    /\ call.comic.id \in call.after.cache

-----------------------------------------------------------------------------
(* C21: a failed or empty automatic search after a successful add *)

\* the step is the answer of an automatic search that found nothing or failed
SearchCameBackEmpty(r) ==
    /\ run[r].pc = "auto_search"
    /\ cstep'.op = "auto_search_comic"
    /\ cstep'.run = r
    /\ cstep'.outcome # "found"

\* how many details of a kind the results hold
DetailCount(results, kind) ==
    Cardinality({ k \in DOMAIN results.details : results.details[k].kind = kind })

\* C21: when the add of a candidate succeeded and the automatic search that
\* follows fails or finds nothing, the candidate stays counted in
\* added_successfully, its id stays in the cache, failed_to_add is not
\* incremented, and the run goes on to the next candidate.
C21_FailedSearchKeepsAdd ==
    [][ SearchCameBackEmpty("daily") =>
          /\ run'["daily"].results = run["daily"].results
          /\ cstep'.id \in TaskAddedIds("daily")
          /\ run'["daily"].results.added_successfully
                = DetailCount(run'["daily"].results, "Added")
          /\ run'["daily"].results.failed_to_add
                = DetailCount(run'["daily"].results, "Failed")
          /\ existing_comics_cache' = existing_comics_cache
          /\ cstep'.id \in existing_comics_cache'
          /\ run'["daily"].pc = "pause"
          /\ run'["daily"].i = run["daily"].i ]_vars

\* a search has just failed for an added candidate that is not the last one
C21_Witness ==
    /\ cstep.op = "auto_search_comic"
    /\ cstep.outcome \in {"http_error", "exception"}
    /\ cstep.id \in existing_comics_cache
    /\ cstep.id \in TaskAddedIds("daily")
    /\ run["daily"].i < Len(run["daily"].truly_new)

-----------------------------------------------------------------------------
(* C22: the garbage collection of the ledger *)

\* the step is the start of a poll, which runs the cleanup first
PollStarts == qpc = "idle" /\ qstep'.op = "poll"

\* the keys of the ledger whose timestamp is more than 48 hours before `t`
OlderThanTwoDays(t) ==
    { k \in DOMAIN notified_downloads : t - notified_downloads[k] > CleanupAge }

\* C22: the cleanup of the ledger removes entries only when more than 24
\* hours have passed since the previous pass; when it runs it removes
\* exactly the entries whose timestamp is more than 48 hours old and leaves
\* every other entry and its timestamp unchanged.
C22_CleanupRemovesOldOnly ==
    [][ PollStarts =>
          IF now - last_cleanup > NotificationCleanupInterval
          THEN /\ DOMAIN notified_downloads'
                    = (DOMAIN notified_downloads) \ OlderThanTwoDays(now)
               /\ \A k \in DOMAIN notified_downloads' :
                      notified_downloads'[k] = notified_downloads[k]
               /\ last_cleanup' = now
          ELSE /\ notified_downloads' = notified_downloads
               /\ last_cleanup' = last_cleanup ]_vars

\* a pass has just removed a delivered key and kept an older-than-now entry
C22_Witness ==
    /\ qstep.op = "poll"
    /\ last_cleanup = now
    /\ \E k \in DOMAIN sent_log : k \notin DOMAIN notified_downloads
    /\ \E k \in DOMAIN notified_downloads : notified_downloads[k] < now

-----------------------------------------------------------------------------
(* C23, C24: the failures of a request *)

\* the values an operation returns for a failure
EmptyResults == { "[]", "{}", "None", "False", "(False, None, reason)", "(False, reason)" }

\* an operation of the library client has returned from an answered request
LibraryAnswered ==
    /\ call.fn = "client_request"
    /\ call.done
    /\ call.op \in LibraryOps
    /\ call.transport = "response"

\* C23 as stated: for every request of the library client, a response whose
\* HTTP status is not 200 is treated as a failure of the operation.
C23_AsStated ==
    (LibraryAnswered /\ call.status # 200) => call.result.value \in EmptyResults

\* the statuses with which the operation of the call can succeed
SuccessStatuses ==
    IF call.op = "add_comic" THEN {201}
    ELSE IF call.op = "download_comic" THEN {200, 201, 202}
    ELSE {200}

\* C23: for every request of the library client, a response whose status is
\* not the one the operation expects (201 for add_comic, 200, 201 or 202
\* for download_comic, 200 for every other) is treated as a failure.
C23_UnexpectedStatusFails ==
    (LibraryAnswered /\ call.status \notin SuccessStatuses)
        => /\ call.result.value \in EmptyResults
           /\ ~call.result.raised

\* add_comic has failed on a response with status 200 and a full envelope
C23_Witness ==
    /\ LibraryAnswered
    /\ call.op = "add_comic"
    /\ call.status = 200
    /\ call.body = "envelope"
    /\ call.result.value = "(False, None, reason)"

\* the request of the call timed out, could not connect, or got a response
\* whose status is not 2xx
RequestFailed ==
    /\ call.fn = "client_request"
    /\ call.done
    /\ \/ call.transport \in {"timeout", "connection_error"}
       \/ call.status < 200
       \/ call.status > 299

\* C24: every operation of the library client and of the catalogue turns a
\* timeout, a connection error and a non-2xx response into its empty or
\* false result, and no exception escapes to its caller.
C24_FailuresDegrade ==
    RequestFailed =>
        /\ ~call.result.raised
        /\ call.result.value \in EmptyResults
        /\ call.result.value = empty_result(call.op)

\* a publisher query of the catalogue has timed out and returned the empty list
C24_Witness ==
    /\ RequestFailed
    /\ call.op = "_search_publisher_releases_by_id"
    /\ call.transport = "timeout"
    /\ call.result.value = "[]"
    /\ ~call.result.raised

-----------------------------------------------------------------------------
(* C25: the lookback window of a discovery run *)

\* C25: every invocation of the discovery pipeline, from the manual command
\* and from the daily job, runs with days_back in 1..60; a caller holding a
\* value outside that range does not start a run.
C25_WindowInRange ==
    (call.fn = "caller" /\ call.done /\ call.result.started)
        => call.result.days_back \in MinDaysBack..MaxDaysBack

-----------------------------------------------------------------------------
(* C26: the poller and the run keep to their own state *)

\* the step is one of the queue poller
PollerActs == qpc' # qpc \/ qstep' # qstep \/ sent_log' # sent_log

\* the step is one of the discovery and acquisition run
RunActs == run' # run \/ cstep' # cstep

\* C26: polling the download queue never changes the cache of the library or
\* its refresh time, and a discovery and acquisition run never changes the
\* ledger or the time of its last cleanup.
C26_DisjointState ==
    [][ /\ PollerActs => /\ existing_comics_cache' = existing_comics_cache
                         /\ last_cache_update' = last_cache_update
        /\ RunActs => /\ notified_downloads' = notified_downloads
                      /\ last_cleanup' = last_cleanup ]_vars

\* the poller has cleaned and filled the ledger, and the run has filled the
\* cache with a volume it added
C26_Witness ==
    /\ last_cleanup > 0
    /\ DOMAIN notified_downloads # {}
    /\ existing_comics_cache # {}
    /\ last_cache_update # NoTime
    /\ TaskAddedIds("daily") # {}
    /\ qpc = "items"

-----------------------------------------------------------------------------
(* C27: an item whose key is in the ledger and that is not re-notified *)

\* the statuses after which a download does not go on
TerminalStatuses == { "completed", "failed", "canceled", "cancelled", "finished" }

\* the step polls an item with both ids whose key is in the ledger and whose
\* status is terminal, or active with progress 0
PollsKnownQuietItem ==
    /\ qpc = "items"
    /\ qstep'.op = "item"
    /\ qstep'.item.id # 0
    /\ qstep'.item.volume_id # 0
    /\ StepKey(qstep') \in DOMAIN notified_downloads
    /\ \/ Lower(qstep'.item.status) \in TerminalStatuses
       \/ /\ Lower(qstep'.item.status) \in {"downloading", "queued"}
          /\ qstep'.item.progress = 0

\* C27: when the key of a polled item is already in the ledger and its
\* status is terminal, or active with progress 0, the poll sends no
\* notification, asks for no volume detail, and leaves the ledger unchanged.
C27_KnownQuietItemSkipped ==
    [][ PollsKnownQuietItem =>
          /\ qstep'.emitted = {}
          /\ ~qstep'.fetched
          /\ sent_log' = sent_log
          /\ notified_downloads' = notified_downloads ]_vars

\* an active item with progress 0 has been skipped for its key in the ledger
C27_Witness ==
    /\ qstep.op = "item"
    /\ qstep.item.id # 0
    /\ qstep.item.volume_id # 0
    /\ qstep.item.status = "downloading"
    /\ qstep.item.progress = 0
    /\ StepKey(qstep) \in DOMAIN notified_downloads
    /\ ~qstep.fetched
    /\ \E k \in DOMAIN notified_downloads : k.status = "completed"

-----------------------------------------------------------------------------
(* C28: the test of the publisher before the add *)

\* _process_new_comic has returned for a candidate that fails the test of the
\* publisher allow-list
RecheckFailed ==
    /\ call.fn = "process_new_comic"
    /\ call.done
    /\ ~is_marvel_or_dc_comic(call.comic)

\* C28: a candidate that fails the publisher allow-list re-check is never
\* submitted to the library: no add request is made, it is counted in
\* failed_to_add, and the cache is unchanged.
C28_RecheckFailureNotSubmitted ==
    RecheckFailed =>
        /\ ~call.after.posted
        /\ call.after.lib = call.lib
        /\ call.after.results.failed_to_add = call.results.failed_to_add + 1
        /\ call.after.results.added_successfully = call.results.added_successfully
        /\ call.after.results.already_exists = call.results.already_exists
        /\ call.after.cache = call.cache

\* the volume of the other publisher was turned away although the library
\* would have created it
C28_Witness ==
    /\ RecheckFailed
    /\ call.answer = "created"
    /\ call.comic.id \notin call.lib
    /\ call.after.results.failed_to_add = 1
    /\ ~call.after.posted

-----------------------------------------------------------------------------
(* C29: an id that is not an integer *)

\* add_comic has returned for an id that int() does not convert
NotConvertible ==
    /\ call.fn = "add_comic"
    /\ call.done
    /\ ~convert_cv_id(call.raw).ok

\* the first half of C29: the answer of add_comic to such an id
NoRequestForBadId ==
    NotConvertible =>
        /\ ~call.added.success
        /\ call.added.volume_id = 0
        /\ startswith(call.added.message, s_Invalid_format)
        /\ ~call.added.requested

\* C29: an add request whose catalog id is not convertible to an integer
\* returns (success = false, no library id, a reason) without sending any
\* request, and the workflow counts that candidate in failed_to_add, not in
\* already_exists.
C29_BadIdCountsAsFailed ==
    /\ NoRequestForBadId
    /\ NotConvertible => call.counted = "failed_to_add"

-----------------------------------------------------------------------------
(* C30: the counts of a run *)

\* the run has returned from check_and_add_new_comics
RunReturned(r) == run[r].pc = "done"

\* the releases of the search that the snapshot of the library holds, counted
\* in the step in which the search returns
InSnapshot(r) ==
    Cardinality({ k \in DOMAIN run'[r].new_releases :
                    run'[r].new_releases[k]
                        \in value_of(run[r].existing_comics, existing_comics_cache) })

\* the step in which the search of the run returns
SearchReturns(r) == run[r].pc = "searching" /\ run'[r].pc # "searching"

\* the run is past the return of its search
PastSearch(r) == run[r].pc \notin {"idle", "refreshing", "searching"}

\* C30: at the end of every run that returns without an internal exception,
\* checked = added_successfully + failed_to_add + already_exists, and
\* new_found = checked minus the number of candidates found in the snapshot
\* of the library before processing.
C30_CountsAddUp ==
    /\ [](\A r \in Runs :
            RunReturned(r) =>
                run[r].results.checked
                    = run[r].results.added_successfully
                        + run[r].results.failed_to_add
                        + run[r].results.already_exists)
    /\ [][ \A r \in Runs :
              /\ SearchReturns(r) =>
                    run'[r].results.new_found
                        = run'[r].results.checked - InSnapshot(r)
              /\ PastSearch(r) =>
                    /\ run'[r].results.new_found = run[r].results.new_found
                    /\ run'[r].results.checked = run[r].results.checked ]_vars

\* a run has returned with one release found in the snapshot, and one that
\* the library did not take
C30_Witness ==
    \E r \in Runs :
        /\ RunReturned(r)
        /\ run[r].results.checked = 2
        /\ run[r].results.new_found = 1
        /\ run[r].results.failed_to_add = 1
        /\ run[r].results.already_exists = 1

-----------------------------------------------------------------------------
(* C31: the cache holds ids of the library only *)

\* C31: in every reachable state, with a library that never removes a
\* volume, every catalog id in the cache is the id of a volume the library
\* holds; the cache may lag the library.
C31_CacheWithinLibrary == existing_comics_cache \subseteq library

\* the cache holds a volume and lags the library by another
C31_Witness ==
    /\ existing_comics_cache # {}
    /\ existing_comics_cache \subseteq library
    /\ library \ existing_comics_cache # {}

-----------------------------------------------------------------------------
(* C32: two overlapping runs over the same candidates *)

\* how many times the run counted the id in added_successfully
AddedCount(r, id) ==
    Cardinality({ k \in DOMAIN run[r].results.details :
                    /\ run[r].results.details[k].kind = "Added"
                    /\ run[r].results.details[k].id = id })

\* the answers with which the library rejects a duplicate
DuplicateRejections == { "unique_constraint", "volume_exists" }

\* the step is the answer of the library to the add request of run r for a
\* volume it already holds, and the answer is the rejection of the duplicate
DuplicateRejected(r) ==
    /\ run[r].pc = "adding"
    /\ cstep'.op = "add_comic"
    /\ cstep'.run = r
    /\ cstep'.id \in library
    /\ cstep'.answer \in DuplicateRejections

\* the last detail of the results
LastDetail(results) == results.details[Len(results.details)]

\* C32: for every interleaving of two overlapping runs over the same
\* candidates, with a library that rejects a duplicate add, each catalog id
\* is counted in added_successfully at most once over both runs, and the
\* attempt of the second run for it ends in already_exists.
C32_AddedAtMostOnce ==
    /\ [](\A id \in Ids : AddedCount("daily", id) + AddedCount("manual", id) <= 1)
    /\ [][ \A r \in Runs :
              DuplicateRejected(r) =>
                  /\ LastDetail(run'[r].results) = Detail("Exists", cstep'.id)
                  /\ run'[r].results.already_exists
                        = run[r].results.already_exists + 1
                  /\ run'[r].results.added_successfully
                        = run[r].results.added_successfully
                  /\ run'[r].results.failed_to_add
                        = run[r].results.failed_to_add ]_vars

\* both runs sent the add request for the same id: one added it, the other
\* was told that it exists
C32_Witness ==
    \E id \in Ids, r \in Runs, q \in Runs :
        /\ r # q
        /\ id \in PostedIds(r) \cap PostedIds(q)
        /\ AddedCount(r, id) = 1
        /\ \E k \in DOMAIN run[q].results.details :
               run[q].results.details[k] = Detail("Exists", id)

-----------------------------------------------------------------------------
(* C33: the ledger and the notifications that were delivered *)

\* C33: the ledger records the key of a queue item only after a notification
\* for that item has actually been sent to the channel; when the send does
\* not happen the key is not recorded.
C33_RecordedOnlyWhenSent ==
    \A k \in DOMAIN notified_downloads :
        /\ k \in DOMAIN sent_log
        /\ sent_log[k].last >= notified_downloads[k]

-----------------------------------------------------------------------------
(* C34: the readiness checks of the queue-monitoring task *)

\* the polling loop of the task runs
Polling == call.poller.pc \in {"due", "sleeping"}

\* the task has ended
PollerEnded == call.poller.pc = "stopped"

\* C34: the queue-monitoring task starts the polling loop if and only if one
\* of at most 5 readiness checks at its start succeeds; after 5 failed
\* checks, each counted once, the task ends and no queue poll is ever
\* performed.
C34_FiveChecksThenNever ==
    /\ [](call.poller.retry_count <= MaxRetries)
    /\ [](Polling => call.poller.retry_count < MaxRetries)
    /\ [](PollerEnded <=> call.poller.retry_count = MaxRetries)
    /\ [](~Polling => ~call.poller.beat)
    /\ [][ /\ call'.poller.retry_count \in { call.poller.retry_count,
                                              call.poller.retry_count + 1 }
           /\ (~Polling /\ Polling')
                 => call'.poller.retry_count = call.poller.retry_count
           /\ PollerEnded => call'.poller = call.poller ]_vars
    /\ (PollerEnded ~> [](PollerEnded /\ ~call.poller.beat))

\* five checks have failed and the task has ended without a poll
C34_Witness ==
    /\ PollerEnded
    /\ call.poller.retry_count = MaxRetries
    /\ ~call.poller.beat
    /\ call.daily.beat

-----------------------------------------------------------------------------
(* C35: a refresh of the cache that fails *)

\* the step is a get_existing_comics call whose liveness probe or whose
\* volume-list fetch failed
RefreshFails ==
    /\ cstep'.op = "get_existing_comics"
    /\ run["daily"].pc \in {"idle", "done"}
    /\ \/ cstep'.answers.about \in {"http_error", "exception"}
       \/ cstep'.answers.volumes \in {"http_error", "exception"}

\* the step processes a candidate whose id the cache holds
ProcessesCachedId ==
    /\ run["daily"].pc = "process"
    /\ run'["daily"].pc # "process" \/ run'["daily"].todo # run["daily"].todo
    /\ Head(run["daily"].todo).id \in existing_comics_cache

\* C35: a get_existing_comics call that fails at the liveness probe or at the
\* volume-list fetch leaves the cached id set and its refresh time exactly
\* as they were, so the ids cached earlier are still used by the cache check
\* of each candidate.
C35_FailedRefreshKeepsCache ==
    /\ [][ RefreshFails =>
              /\ existing_comics_cache' = existing_comics_cache
              /\ last_cache_update' = last_cache_update ]_vars
    /\ [][ ProcessesCachedId =>
              /\ LastDetail(run'["daily"].results)
                    = Detail("Skipped_cache", Head(run["daily"].todo).id)
              /\ run'["daily"].results.already_exists
                    = run["daily"].results.already_exists + 1
              /\ library' = library
              /\ existing_comics_cache' = existing_comics_cache ]_vars

\* a run whose refresh failed took a candidate for new and then skipped it
\* for its id in the cache that an earlier run filled
C35_Witness ==
    /\ run["daily"].existing = {}
    /\ run["daily"].prev.valid
    /\ existing_comics_cache # {}
    /\ run["daily"].results.details # <<>>
    /\ LastDetail(run["daily"].results).kind = "Skipped_cache"

-----------------------------------------------------------------------------
(* C36: an empty cache is not a hit *)

\* the step is a get_existing_comics call made with the cache empty
CalledWithEmptyCache ==
    /\ cstep'.op = "get_existing_comics"
    /\ run["daily"].pc \in {"idle", "done"}
    /\ existing_comics_cache = {}

\* C36: an empty cached id set is never served as a cache hit: whenever the
\* cache is empty, a get_existing_comics call contacts the library, even
\* when the last refresh, one that found 0 volumes included, was less than
\* 1 hour ago.
C36_EmptyCacheAsksLibrary ==
    [][ CalledWithEmptyCache =>
          /\ cstep'.requests # <<>>
          /\ Head(cstep'.requests) = "about"
          /\ cstep'.answers.about # "unasked" ]_vars

\* a call within the hour of a refresh that found no volume asked the
\* library, and its probe failed
C36_Witness ==
    /\ cstep.op = "get_existing_comics"
    /\ cstep.requests = <<"about">>
    /\ existing_comics_cache = {}
    /\ last_cache_update # NoTime
    /\ now - last_cache_update < CacheDuration

-----------------------------------------------------------------------------
(* C37: an item that is not to be notified *)

\* the statuses of the notifiable set
Notifiable ==
    { "queued", "downloading", "snatched", "grabbed", "completed", "importing",
      "failed", "canceled", "cancelled", "finished" }

\* the step polls an item without a download id or a volume id, or with a
\* status outside the notifiable set
PollsUnnotifiableItem ==
    /\ qpc = "items"
    /\ qstep'.op = "item"
    /\ \/ qstep'.item.id = 0
       \/ qstep'.item.volume_id = 0
       \/ Lower(qstep'.item.status) \notin Notifiable

\* C37: a polled queue item that has no download id or no volume id, or
\* whose status is outside the notifiable set, produces no notification, no
\* volume-detail request and no change to the ledger.
C37_UnnotifiableItemIgnored ==
    [][ PollsUnnotifiableItem =>
          /\ qstep'.emitted = {}
          /\ ~qstep'.fetched
          /\ sent_log' = sent_log
          /\ notified_downloads' = notified_downloads
          /\ last_cleanup' = last_cleanup ]_vars

\* a paused item with both ids was passed over while the ledger held the key
\* of another status of the same download
C37_Witness ==
    /\ qstep.op = "item"
    /\ qstep.item.status = "Paused"
    /\ qstep.item.id # 0
    /\ qstep.item.volume_id # 0
    /\ ~qstep.fetched
    /\ StepKey(qstep) \notin DOMAIN notified_downloads
    /\ DOMAIN notified_downloads # {}

-----------------------------------------------------------------------------
(* C38: the iterations of the daily job *)

\* C38: in each iteration of the daily job a run is started only if the job
\* is enabled and both connectivity checks of that iteration succeeded;
\* otherwise the iteration issues no add request; in both cases the job
\* sleeps the configured interval and iterates again.
C38_RunOnlyWhenReady ==
    /\ [](call.result.started
            => call.enabled /\ call.comicvine_ok /\ call.kapowarr_ok)
    /\ [](~call.result.started => call.adds = 0)
    /\ [][ call.pc = "due" => call'.pc = "sleeping" /\ call'.beat # call.beat ]_vars
    /\ \A b \in BOOLEAN : (call.beat = b) ~> (call.pc = "sleeping" /\ call.beat # b)

\* after an iteration that started a run, an iteration whose library probe
\* failed sent no add request and went to sleep
C38_Witness ==
    /\ call.fn = "daily_job"
    /\ call.pc = "sleeping"
    /\ ~call.beat
    /\ call.enabled
    /\ call.comicvine_ok
    /\ ~call.kapowarr_ok
    /\ ~call.result.started
    /\ call.adds = 0

-----------------------------------------------------------------------------
(* C39: the presence loop and its flag *)

\* the loops that are running
RunningLoops == { k \in Loops : LoopRunning(k) }

\* C39: for every sequence of start_presence_loop and stop_presence_loop
\* calls on one instance, at most one presence loop is running at any time,
\* and is_running is true exactly when a loop is running, also after a loop
\* was cancelled.
C39_OneLoopAndFlag ==
    /\ Cardinality(RunningLoops) <= 1
    /\ call.is_running <=> RunningLoops # {}

====
